---------------------------- MODULE Spec2Model ----------------------------
(***************************************************************************)
(* Model of the distutils command bdist_osxinst                            *)
(* (src/bdist_osxinst/bdist_osxinst.py).                                   *)
(*                                                                         *)
(* Python strings are sequences of one-character strings, so that the      *)
(* string and path operations of the code (startswith, slicing, normpath,  *)
(* join, splitext, replace, repr, %-formatting) are computed and never     *)
(* assumed.  None is the one-element sequence <<"None">>, which is no      *)
(* string of characters.                                                   *)
(***************************************************************************)
EXTENDS Integers, Sequences, FiniteSets, TLC

(***************************************************************************)
(* Python str / list primitives used by the source.                        *)
(***************************************************************************)

None == <<"None">>

\* s.startswith(p)
startswith(s, p) == Len(p) <= Len(s) /\ SubSeq(s, 1, Len(p)) = p

\* s.endswith(p)
endswith(s, p) == Len(p) <= Len(s) /\ SubSeq(s, Len(s) - Len(p) + 1, Len(s)) = p

\* s[n:]   (n >= 0)
slice_from(s, n) == SubSeq(s, n + 1, Len(s))

\* s[:n]   (n >= 0)
slice_to(s, n) == SubSeq(s, 1, IF n < Len(s) THEN n ELSE Len(s))

\* s.find(c) + 1 for a one-character c: the first position of c, 0 if absent
find(s, c) ==
    IF \E i \in 1..Len(s) : s[i] = c
    THEN CHOOSE i \in 1..Len(s) : s[i] = c /\ \A j \in 1..(i - 1) : s[j] # c
    ELSE 0

\* s.rfind(c) + 1 for a one-character c: the last position of c, 0 if absent
rfind(s, c) ==
    IF \E i \in 1..Len(s) : s[i] = c
    THEN CHOOSE i \in 1..Len(s) : s[i] = c /\ \A j \in (i + 1)..Len(s) : s[j] # c
    ELSE 0

\* sub in s, for a substring sub
contains(s, sub) ==
    \E i \in 0..(Len(s) - Len(sub)) : SubSeq(s, i + 1, i + Len(sub)) = sub

\* s.split(c) for a one-character separator c
RECURSIVE split(_, _)
split(s, c) ==
    LET i == find(s, c)
    IN  IF i = 0 THEN <<s>>
        ELSE <<SubSeq(s, 1, i - 1)>> \o split(slice_from(s, i), c)

\* c.join(parts) for a one-character separator c
RECURSIVE join(_, _)
join(c, parts) ==
    IF parts = <<>> THEN <<>>
    ELSE IF Len(parts) = 1 THEN parts[1]
    ELSE parts[1] \o <<c>> \o join(c, Tail(parts))

\* reversed(list)
RECURSIVE reversed(_)
reversed(l) == IF l = <<>> THEN <<>> ELSE reversed(Tail(l)) \o <<Head(l)>>

\* s.replace(a, b) for one-character a and b
replace(s, a, b) == [i \in 1..Len(s) |-> IF s[i] = a THEN b ELSE s[i]]

Digit(d) == <<"0", "1", "2", "3", "4", "5", "6", "7", "8", "9">>[d + 1]

\* "%d" % n for n >= 0
RECURSIVE format_d(_)
format_d(n) == IF n < 10 THEN <<Digit(n)>> ELSE format_d(n \div 10) \o <<Digit(n % 10)>>

UpperCase == <<"A", "B", "C", "D", "E", "F", "G", "H", "I", "J", "K", "L", "M",
               "N", "O", "P", "Q", "R", "S", "T", "U", "V", "W", "X", "Y", "Z">>

LowerCase == <<"a", "b", "c", "d", "e", "f", "g", "h", "i", "j", "k", "l", "m",
               "n", "o", "p", "q", "r", "s", "t", "u", "v", "w", "x", "y", "z">>

\* s.lower()
lower(s) ==
    [i \in 1..Len(s) |->
        IF \E k \in 1..26 : UpperCase[k] = s[i]
        THEN LowerCase[CHOOSE k \in 1..26 : UpperCase[k] = s[i]]
        ELSE s[i]]

\* repr(s) of a str: the quote is " only when s holds ' and no "; the
\* backslash, the chosen quote, and \n \r \t are escaped.
repr_quote(s) ==
    IF (\E i \in 1..Len(s) : s[i] = "'") /\ ~(\E i \in 1..Len(s) : s[i] = "\"")
    THEN "\"" ELSE "'"

RECURSIVE repr_body(_, _)
repr_body(s, q) ==
    IF s = <<>> THEN <<>>
    ELSE LET c == Head(s)
             e == IF c = "\\" THEN <<"\\", "\\">>
                  ELSE IF c = q THEN <<"\\", c>>
                  ELSE IF c = "\n" THEN <<"\\", "n">>
                  ELSE IF c = "\r" THEN <<"\\", "r">>
                  ELSE IF c = "\t" THEN <<"\\", "t">>
                  ELSE <<c>>
         IN  e \o repr_body(Tail(s), q)

repr(s) == LET q == repr_quote(s) IN <<q>> \o repr_body(s, q) \o <<q>>

(***************************************************************************)
(* os.path (posixpath) as the source calls it.                             *)
(***************************************************************************)

Sep == "/"

\* os.path.isabs(p)
isabs(p) == startswith(p, <<Sep>>)

\* the loop of posixpath.normpath over the components
RECURSIVE norm_comps(_, _, _)
norm_comps(comps, new_comps, initial_slashes) ==
    IF comps = <<>> THEN new_comps
    ELSE LET comp == Head(comps)
             n    == Len(new_comps)
         IN  IF comp = <<>> \/ comp = <<".">>
             THEN norm_comps(Tail(comps), new_comps, initial_slashes)
             ELSE IF comp # <<".", ".">>
                     \/ (initial_slashes = 0 /\ n = 0)
                     \/ (n > 0 /\ new_comps[n] = <<".", ".">>)
             THEN norm_comps(Tail(comps), Append(new_comps, comp), initial_slashes)
             ELSE IF n > 0
             THEN norm_comps(Tail(comps), SubSeq(new_comps, 1, n - 1), initial_slashes)
             ELSE norm_comps(Tail(comps), new_comps, initial_slashes)

\* os.path.normpath(path)
normpath(path) ==
    IF path = <<>> THEN <<".">>
    ELSE LET initial_slashes ==
                 IF ~startswith(path, <<Sep>>) THEN 0
                 ELSE IF startswith(path, <<Sep, Sep>>) /\ ~startswith(path, <<Sep, Sep, Sep>>)
                 THEN 2 ELSE 1
             comps == norm_comps(split(path, Sep), <<>>, initial_slashes)
             body  == join(Sep, comps)
             res   == [i \in 1..initial_slashes |-> Sep] \o body
         IN  IF res = <<>> THEN <<".">> ELSE res

\* os.path.join(a, b)
path_join(a, b) ==
    IF startswith(b, <<Sep>>) THEN b
    ELSE IF a = <<>> \/ endswith(a, <<Sep>>) THEN a \o b
    ELSE a \o <<Sep>> \o b

\* os.path.basename(p)
basename(p) == slice_from(p, rfind(p, Sep))

\* os.path.dirname(p)
dirname(p) ==
    LET head == slice_to(p, rfind(p, Sep))
    IN  IF head # <<>> /\ (\E k \in 1..Len(head) : head[k] # Sep)
        THEN SubSeq(head, 1, CHOOSE n \in 1..Len(head) :
                                 head[n] # Sep /\ \A k \in (n + 1)..Len(head) : head[k] = Sep)
        ELSE head

\* os.path.splitext(p): (root, ext); leading dots of the last component
\* are not an extension separator
splitext(p) ==
    LET sepIndex == rfind(p, Sep)
        dotIndex == rfind(p, ".")
    IN  IF dotIndex > sepIndex
           /\ \E k \in (sepIndex + 1)..(dotIndex - 1) : p[k] # "."
        THEN <<SubSeq(p, 1, dotIndex - 1), SubSeq(p, dotIndex, Len(p))>>
        ELSE <<p, <<>>>>

(***************************************************************************)
(* String constants of the source.                                         *)
(***************************************************************************)

S_pkg_prefix      == <<"p", "k", "g", ".">>
S_pkg_ext         == <<".", "p", "k", "g">>
S_mods_suffix     == <<"-", "m", "o", "d", "s">>
S_scripts_suffix  == <<"-", "s", "c", "r", "i", "p", "t", "s">>
S_modules_pkg     == <<"m", "o", "d", "u", "l", "e", "s", ".", "p", "k", "g">>
S_scripts_pkg     == <<"s", "c", "r", "i", "p", "t", "s", ".", "p", "k", "g">>
S_py              == <<"_", "p", "y">>
S_package         == <<" ", "p", "a", "c", "k", "a", "g", "e">>
S_python_package  == <<"P", "y", "t", "h", "o", "n", " ", "p", "a", "c", "k", "a", "g", "e", " ", "\"">>
S_quote_dot       == <<"\"", ".">>
S_single_descr    == <<"P", "y", "t", "h", "o", "n", " ", "p", "a", "c", "k", "a", "g", "e", "s", " ", "a", "n", "d", " ", "m", "o", "d", "u", "l", "e", "s", ".">>
S_Modules         == <<"M", "o", "d", "u", "l", "e", "s">>
S_Scripts         == <<"S", "c", "r", "i", "p", "t", "s">>
S_mods_descr      == <<"T", "h", "i", "s", " ", "p", "a", "c", "k", "a", "g", "e", " ", "c", "o", "n", "t", "a", "i", "n", "s", " ", "t", "o", "p", "-", "l", "e", "v", "e", "l", " ", "m", "o", "d", "u", "l", "e", "s", " ", "a", "n", "d", " ", "d", "a", "t", "a", " ", "f", "i", "l", "e", "s", ".">>
S_scripts_descr   == <<"T", "h", "i", "s", " ", "p", "a", "c", "k", "a", "g", "e", " ", "c", "o", "n", "t", "a", "i", "n", "s", " ", "c", "o", "m", "m", "a", "n", "d", " ", "l", "i", "n", "e", " ", "s", "c", "r", "i", "p", "t", "s", ".">>
S_globals         == <<":", "g", "l", "o", "b", "a", "l", "s", ":">>
S_scripts_section == <<":", "s", "c", "r", "i", "p", "t", "s", ":">>
S_mods_section    == <<":", "m", "o", "d", "s", ":">>
S_init_py         == <<"_", "_", "i", "n", "i", "t", "_", "_", ".", "p", "y">>
S_egg_info        == <<".", "e", "g", "g", "-", "i", "n", "f", "o">>
S_site_packages   == <<"s", "i", "t", "e", "-", "p", "a", "c", "k", "a", "g", "e", "s">>
S_stage           == <<"s", "t", "a", "g", "e">>
S_stage_mod       == <<"s", "t", "a", "g", "e", "_", "m", "o", "d">>
S_pkgs            == <<"p", "k", "g", "s">>
S_resources       == <<"r", "e", "s", "o", "u", "r", "c", "e", "s">>
S_Distribution    == <<"D", "i", "s", "t", "r", "i", "b", "u", "t", "i", "o", "n">>
S_mkpkg_sh        == <<"m", "k", "p", "k", "g", ".", "s", "h">>
S_welcome_html    == <<"w", "e", "l", "c", "o", "m", "e", ".", "h", "t", "m", "l">>
S_html            == <<".", "h", "t", "m", "l">>
S_public_html     == <<"p", "u", "b", "l", "i", "c", ".", "h", "t", "m", "l">>
S_background      == <<"b", "a", "c", "k", "g", "r", "o", "u", "n", "d", "-", "d", "i", "m", "m", "e", "d", ".", "p", "n", "g">>
S_osxinst         == <<"o", "s", "x", "i", "n", "s", "t">>
S_arch_i386       == <<"-", "a", "r", "c", "h", " ", "i", "3", "8", "6">>
S_arch_i86_64     == <<"-", "a", "r", "c", "h", " ", "i", "8", "6", "_", "6", "4">>
S_arch_ppc        == <<"-", "a", "r", "c", "h", " ", "p", "p", "c">>
S_i386            == <<"i", "3", "8", "6">>
S_x86_64          == <<"x", "8", "6", "_", "6", "4">>
S_ppc             == <<"p", "p", "c">>
S_UNKNOWN         == <<"U", "N", "K", "N", "O", "W", "N">>
S_macosx_py       == <<".", "m", "a", "c", "o", "s", "x", "-", "p", "y">>
S_dash_py         == <<"-", "p", "y">>

\* ConfigParser's default section
DEFAULTSECT == <<"D", "E", "F", "A", "U", "L", "T">>

\* ConfigParser() before anything is read
EmptyConfig == [section \in {} |-> [key \in {} |-> None]]

(***************************************************************************)
(* class Package                                                           *)
(***************************************************************************)

Package(name, identifier, version, title, description, stage_root, install_location) ==
    [name             |-> name,
     identifier       |-> identifier,
     version          |-> version,
     title            |-> title,
     description      |-> description,
     stage_root       |-> stage_root,
     install_location |-> install_location]

(***************************************************************************)
(* get_python_arch                                                         *)
(***************************************************************************)

get_python_arch(flags) ==
    LET i386   == contains(flags, S_arch_i386)
        x86_64 == contains(flags, S_arch_i86_64)
        ppc    == contains(flags, S_arch_ppc)
        archs1 == IF i386 THEN <<S_i386>>
                  ELSE IF x86_64 THEN <<S_x86_64>>
                  ELSE <<>>
        archs  == IF ppc THEN Append(archs1, S_ppc) ELSE archs1
    IN  join(",", archs)

(***************************************************************************)
(* The methods of bdist_osxinst that compute values.  self is the command  *)
(* object: its options, self.config (section -> key -> value, as           *)
(* ConfigParser holds it), self.distribution and, as self.sys, the         *)
(* interpreter the command runs in (sys.platform, sys.version_info,        *)
(* the CFLAGS config var, get_platform()).                                 *)
(***************************************************************************)

\* ConfigParser.has_option(section, key)
has_option(config, section, key) ==
    LET in_defaults == DEFAULTSECT \in DOMAIN config /\ key \in DOMAIN config[DEFAULTSECT]
    IN  IF section = <<>> \/ section = DEFAULTSECT THEN in_defaults
        ELSE IF section \notin DOMAIN config THEN FALSE
        ELSE key \in DOMAIN config[section] \/ in_defaults

\* ConfigParser.get(section, key), where has_option(section, key) holds
config_get(config, section, key) ==
    IF section \in DOMAIN config /\ key \in DOMAIN config[section]
    THEN config[section][key]
    ELSE config[DEFAULTSECT][key]

get_config_value(self, key, section, default) ==
    IF has_option(self.config, section, key)
    THEN config_get(self.config, section, key)
    ELSE default

\* variant of get_identifier that puts the version of the distribution
\* into the identifier
get_identifier_version(self, name) ==
    self.id_prefix \o <<"_">> \o name \o <<"-">> \o self.distribution.version \o S_py
        \o format_d(self.sys.version_info[1]) \o <<".">> \o format_d(self.sys.version_info[2])

\* variant of get_identifier that formats the minor and micro numbers of
\* the interpreter
get_identifier_micro(self, name) ==
    self.id_prefix \o <<"_">> \o name \o S_py
        \o format_d(self.sys.version_info[2]) \o <<".">> \o format_d(self.sys.version_info[3])

get_identifier(self, name) ==
    self.id_prefix \o <<"_">> \o name \o S_py
        \o format_d(self.sys.version_info[1]) \o <<".">> \o format_d(self.sys.version_info[2])

\* urlparse(url)[1]: the network location of url
Letters == {"a", "b", "c", "d", "e", "f", "g", "h", "i", "j", "k", "l", "m",
            "n", "o", "p", "q", "r", "s", "t", "u", "v", "w", "x", "y", "z",
            "A", "B", "C", "D", "E", "F", "G", "H", "I", "J", "K", "L", "M",
            "N", "O", "P", "Q", "R", "S", "T", "U", "V", "W", "X", "Y", "Z"}

SchemeChars == Letters \cup {"0", "1", "2", "3", "4", "5", "6", "7", "8", "9", "+", "-", "."}

urlparse_netloc(url) ==
    LET i      == find(url, ":")
        scheme == i > 1 /\ url[1] \in Letters /\ \A k \in 1..(i - 1) : url[k] \in SchemeChars
        rest   == IF scheme THEN slice_from(url, i) ELSE url
        ends   == {k \in 3..Len(rest) : rest[k] \in {"/", "?", "#"}}
        delim  == IF ends = {} THEN Len(rest) + 1
                  ELSE CHOOSE k \in ends : \A j \in ends : k <= j
    IN  IF startswith(rest, <<"/", "/">>) THEN SubSeq(rest, 3, delim - 1) ELSE <<>>

\* finalize_options, lines 171-175: the prefix for package ids
id_prefix_of(url) ==
    LET netloc == split(urlparse_netloc(url), ":")[1]
    IN  join(".", reversed(split(netloc, ".")))

\* variant of stage_dir_to_install_dir that removes the separator after the
\* prefix too and does not look at the result
stage_dir_to_install_dir_relative(stage_dir, stage_root) ==
    IF ~startswith(stage_dir, stage_root)
    THEN [raised |-> "DistutilsInternalError", value |-> None]
    ELSE [raised |-> "", value |-> normpath(slice_from(stage_dir, Len(stage_root) + 1))]

stage_dir_to_install_dir(stage_dir, stage_root) ==
    IF ~startswith(stage_dir, stage_root)
    THEN [raised |-> "DistutilsInternalError", value |-> None]
    ELSE LET install_dir == normpath(slice_from(stage_dir, Len(stage_root)))
         IN  IF ~isabs(install_dir)
             THEN [raised |-> "DistutilsInternalError", value |-> None]
             ELSE [raised |-> "", value |-> install_dir]

create_script_package(self, stage_scripts_dir, target_scripts_dir) ==
    LET title       == get_config_value(self, "title", S_scripts_section, S_Scripts)
        description == get_config_value(self, "description", S_scripts_section, S_scripts_descr)
    IN  Package(S_scripts_pkg,
                get_identifier(self, self.distribution.name \o S_scripts_suffix),
                self.distribution.version,
                title,
                description,
                stage_scripts_dir,
                target_scripts_dir)

create_mods_package(self, stage_mods_dir, target_lib_dir) ==
    LET title       == get_config_value(self, "title", S_mods_section, S_Modules)
        description == get_config_value(self, "description", S_mods_section, S_mods_descr)
    IN  Package(S_modules_pkg,
                get_identifier(self, self.distribution.name \o S_mods_suffix),
                self.distribution.version,
                title,
                description,
                stage_mods_dir,
                target_lib_dir)

\* variant of the loop body that installs every package into the library
\* directory itself
lib_package_flat(self, name, stage_lib_dir, target_lib_dir) ==
    LET file_name   == S_pkg_prefix \o name \o S_pkg_ext
        title       == get_config_value(self, "title", name, name \o S_package)
        description == get_config_value(self, "description", name,
                                        S_python_package \o name \o S_quote_dot)
    IN  Package(file_name,
                get_identifier(self, splitext(file_name)[1]),
                self.distribution.version,
                title,
                description,
                path_join(stage_lib_dir, name),
                target_lib_dir)

\* the body of the loop of create_lib_packages, for one package name
lib_package(self, name, stage_lib_dir, target_lib_dir) ==
    LET file_name   == S_pkg_prefix \o name \o S_pkg_ext
        title       == get_config_value(self, "title", name, name \o S_package)
        description == get_config_value(self, "description", name,
                                        S_python_package \o name \o S_quote_dot)
    IN  Package(file_name,
                get_identifier(self, splitext(file_name)[1]),
                self.distribution.version,
                title,
                description,
                path_join(stage_lib_dir, name),
                path_join(target_lib_dir, name))

create_lib_packages(self, pkgNames, stage_lib_dir, target_lib_dir) ==
    [i \in 1..Len(pkgNames) |-> lib_package(self, pkgNames[i], stage_lib_dir, target_lib_dir)]

\* variant of create_single_lib_package whose source root and install
\* location are those of a package of that name
create_single_lib_package_sub(self, name, stage_lib_dir, target_lib_dir) ==
    LET file_name   == S_pkg_prefix \o name \o S_pkg_ext
        title       == get_config_value(self, "title", name, name \o S_package)
        description == get_config_value(self, "description", name, S_single_descr)
    IN  Package(file_name,
                get_identifier(self, splitext(file_name)[1]),
                self.distribution.version,
                title,
                description,
                path_join(stage_lib_dir, name),
                path_join(target_lib_dir, name))

create_single_lib_package(self, name, stage_lib_dir, target_lib_dir) ==
    LET file_name   == S_pkg_prefix \o name \o S_pkg_ext
        title       == get_config_value(self, "title", name, name \o S_package)
        description == get_config_value(self, "description", name, S_single_descr)
    IN  Package(file_name,
                get_identifier(self, splitext(file_name)[1]),
                self.distribution.version,
                title,
                description,
                stage_lib_dir,
                target_lib_dir)

(***************************************************************************)
(* The staged library directory as the code sees it.  A directory is a     *)
(* function from the names of its immediate children to entries            *)
(*   [isdir, init, origin, holds]:                                         *)
(* isdir is os.path.isdir(child); init says what child/__init__.py is      *)
(* ("none", "file" or "dir"); origin is "install" for what this build      *)
(* staged and "earlier" for what an earlier build left behind; holds is    *)
(* the set of files copied into an existing directory of that name.        *)
(* listing is the order in which os.listdir returns the names.             *)
(***************************************************************************)

EmptyDir == [name \in {} |-> None]

NoContents == [called |-> FALSE, pkgNames |-> <<>>, files |-> <<>>, dirNames |-> <<>>]

\* variant of the loop body that lists a package among the directories too
contents_step_twice(acc, lib, name) ==
    IF lib[name].isdir
    THEN IF lib[name].init = "file"
         THEN [acc EXCEPT !.pkgNames = Append(@, name), !.dirNames = Append(@, name)]
         ELSE [acc EXCEPT !.dirNames = Append(@, name)]
    ELSE IF splitext(name)[2] \notin {S_egg_info}
         THEN [acc EXCEPT !.files = Append(@, name)]
         ELSE acc

\* variant of the loop body that takes any __init__.py, file or not, for
\* the package marker
contents_step_exists(acc, lib, name) ==
    IF lib[name].isdir
    THEN IF lib[name].init # "none"
         THEN [acc EXCEPT !.pkgNames = Append(@, name)]
         ELSE [acc EXCEPT !.dirNames = Append(@, name)]
    ELSE IF splitext(name)[2] \notin {S_egg_info}
         THEN [acc EXCEPT !.files = Append(@, name)]
         ELSE acc

\* get_installed_contents, lines 482-491: the body of the loop for one name
contents_step(acc, lib, name) ==
    IF lib[name].isdir
    THEN IF lib[name].init = "file"
         THEN [acc EXCEPT !.pkgNames = Append(@, name)]
         ELSE [acc EXCEPT !.dirNames = Append(@, name)]
    ELSE IF splitext(name)[2] \notin {S_egg_info}
         THEN [acc EXCEPT !.files = Append(@, name)]
         ELSE acc

RECURSIVE contents_loop(_, _, _)
contents_loop(acc, lib, listing) ==
    IF listing = <<>> THEN acc
    ELSE contents_loop(contents_step(acc, lib, Head(listing)), lib, Tail(listing))

get_installed_contents(lib, listing) ==
    contents_loop([NoContents EXCEPT !.called = TRUE], lib, listing)

\* copy_mods_and_data, lines 360-363: shutil.copy2 of every file; a
\* destination that is a directory receives the file inside it
RECURSIVE copy_files(_, _, _)
copy_files(files, lib, entries) ==
    IF files = <<>> THEN entries
    ELSE LET fileName == Head(files)
             copied   == IF fileName \in DOMAIN entries /\ entries[fileName].isdir
                         THEN [entries EXCEPT ![fileName].holds = @ \cup {fileName}]
                         ELSE (fileName :> lib[fileName]) @@ entries
         IN  copy_files(Tail(files), lib, copied)

\* copy_mods_and_data, lines 366-371: rmtree of an existing destination
\* (which raises when it is no directory), then copytree
RECURSIVE copy_dirs(_, _, _)
copy_dirs(dirNames, lib, entries) ==
    IF dirNames = <<>> THEN [raised |-> "", entries |-> entries]
    ELSE LET dirName == Head(dirNames)
         IN  IF dirName \in DOMAIN entries /\ ~entries[dirName].isdir
             THEN [raised |-> "OSError", entries |-> entries]
             ELSE copy_dirs(Tail(dirNames), lib, (dirName :> lib[dirName]) @@ entries)

\* mod is the stage_mod directory: [exists, entries]
copy_mods_and_data(files, dirNames, lib, mod) ==
    LET made   == IF mod.exists THEN mod.entries ELSE EmptyDir
        result == copy_dirs(dirNames, lib, copy_files(files, lib, made))
    IN  [raised |-> result.raised, mod |-> [exists |-> TRUE, entries |-> result.entries]]

distribution_has_modules(distribution) ==
    distribution.has_pure_modules \/ distribution.has_ext_modules

\* variant of create_package_objs that makes the modules descriptor in
\* default mode whatever the classification holds
create_package_objs_mods(self, lib, listing, mod, loc) ==
    LET got    == IF ~self.single_lib_pkg THEN get_installed_contents(lib, listing)
                  ELSE NoContents
        libs   == IF ~self.single_lib_pkg
                  THEN IF Len(got.pkgNames) # 0
                       THEN create_lib_packages(self, got.pkgNames, loc.stage_lib_dir, loc.target_lib_dir)
                       ELSE <<>>
                  ELSE IF distribution_has_modules(self.distribution)
                       THEN <<create_single_lib_package(self, self.distribution.name,
                                                        loc.stage_lib_dir, loc.target_lib_dir)>>
                       ELSE <<>>
        mods   == ~self.single_lib_pkg
        copy   == IF mods THEN copy_mods_and_data(got.files, got.dirNames, lib, mod)
                  ELSE [raised |-> "", mod |-> mod]
        pkgs1  == IF mods
                  THEN Append(libs, create_mods_package(self, loc.stage_mod_dir, loc.target_lib_dir))
                  ELSE libs
        pkgs2  == IF self.distribution.has_scripts
                  THEN Append(pkgs1, create_script_package(self, loc.stage_scripts_dir,
                                                           loc.target_scripts_dir))
                  ELSE pkgs1
    IN  IF copy.raised # ""
        THEN [raised |-> copy.raised, pkgs |-> <<>>, mod |-> copy.mod, contents |-> got]
        ELSE [raised |-> "", pkgs |-> pkgs2, mod |-> copy.mod, contents |-> got]

\* create_package_objs: the descriptors, the classification it used and
\* the stage_mod directory it leaves
create_package_objs(self, lib, listing, mod, loc) ==
    LET got    == IF ~self.single_lib_pkg THEN get_installed_contents(lib, listing)
                  ELSE NoContents
        libs   == IF ~self.single_lib_pkg
                  THEN IF Len(got.pkgNames) # 0
                       THEN create_lib_packages(self, got.pkgNames, loc.stage_lib_dir, loc.target_lib_dir)
                       ELSE <<>>
                  ELSE IF distribution_has_modules(self.distribution)
                       THEN <<create_single_lib_package(self, self.distribution.name,
                                                        loc.stage_lib_dir, loc.target_lib_dir)>>
                       ELSE <<>>
        mods   == ~self.single_lib_pkg /\ (Len(got.files) # 0 \/ Len(got.dirNames) # 0)
        copy   == IF mods THEN copy_mods_and_data(got.files, got.dirNames, lib, mod)
                  ELSE [raised |-> "", mod |-> mod]
        pkgs1  == IF mods
                  THEN Append(libs, create_mods_package(self, loc.stage_mod_dir, loc.target_lib_dir))
                  ELSE libs
        pkgs2  == IF self.distribution.has_scripts
                  THEN Append(pkgs1, create_script_package(self, loc.stage_scripts_dir,
                                                           loc.target_scripts_dir))
                  ELSE pkgs1
    IN  IF copy.raised # ""
        THEN [raised |-> copy.raised, pkgs |-> <<>>, mod |-> copy.mod, contents |-> got]
        ELSE [raised |-> "", pkgs |-> pkgs2, mod |-> copy.mod, contents |-> got]

(***************************************************************************)
(* External tools.  A command line is a record of the tool and of the      *)
(* values formatted into it; a tool result is [returncode, out].           *)
(***************************************************************************)

pkgbuild_cmd(pkg_name, root, identifier, version, install_location) ==
    [tool |-> "pkgbuild", root |-> root, identifier |-> identifier, version |-> version,
     install_location |-> install_location, pkg_name |-> pkg_name]

productbuild_cmd(pkg_name, distribution, package_path, resources) ==
    [tool |-> "productbuild", distribution |-> distribution, package_path |-> package_path,
     resources |-> resources, pkg_name |-> pkg_name]

mdls_cmd(file_name) == [tool |-> "mdls", file |-> file_name]

\* variant of call that raises for no tool result
call_raised_never(result) == ""

\* call: the exception it raises for a tool result
call_raised(result) == IF result.returncode # 0 THEN "DistutilsExecError" ELSE ""

\* call, lines 688-695: what it writes with log.error for a tool result
call_logged(result) == IF result.returncode # 0 THEN <<result.out, result.err>> ELSE <<>>

\* variant of get_file_uti that takes whatever mdls answers
get_file_uti_any(file_name, result) ==
    IF lower(splitext(file_name)[2]) = S_html
    THEN [raised |-> "", uti |-> S_public_html, calls |-> <<>>]
    ELSE LET made == <<[cmd |-> mdls_cmd(file_name), returncode |-> result.returncode,
                        out |-> result.out, logged |-> call_logged(result)]>>
         IN  IF call_raised(result) # ""
             THEN [raised |-> call_raised(result), uti |-> None, calls |-> made]
             ELSE [raised |-> "", uti |-> result.out, calls |-> made]

\* get_file_uti; result is what mdls answers when it is asked
get_file_uti(file_name, result) ==
    IF lower(splitext(file_name)[2]) = S_html
    THEN [raised |-> "", uti |-> S_public_html, calls |-> <<>>]
    ELSE LET made == <<[cmd |-> mdls_cmd(file_name), returncode |-> result.returncode,
                        out |-> result.out, logged |-> call_logged(result)]>>
         IN  IF call_raised(result) # ""
             THEN [raised |-> call_raised(result), uti |-> None, calls |-> made]
             ELSE IF ~contains(result.out, <<".">>)
             THEN [raised |-> "DistutilsExecError", uti |-> None, calls |-> made]
             ELSE [raised |-> "", uti |-> result.out, calls |-> made]

\* variant of resource_lines that puts each element before those made
\* earlier
RECURSIVE resource_lines_reversed(_, _, _, _)
resource_lines_reversed(self, tags, mdls, acc) ==
    IF tags = <<>> THEN acc
    ELSE LET tag  == Head(tags)
             file == self[tag]
         IN  IF file = None THEN resource_lines_reversed(self, Tail(tags), mdls, acc)
             ELSE LET got == get_file_uti(file, mdls[tag])
                  IN  IF got.raised # ""
                      THEN [raised |-> got.raised, xml |-> acc.xml, calls |-> acc.calls \o got.calls]
                      ELSE resource_lines_reversed(self, Tail(tags), mdls,
                               [raised |-> "",
                                xml    |-> <<[tag |-> tag, file |-> basename(file),
                                              uti |-> got.uti]>> \o acc.xml,
                                calls  |-> acc.calls \o got.calls])

\* create_distribution_xml, lines 612-620: the welcome, readme and license
\* elements, in that order; mdls maps each to the answer of the tool
RECURSIVE resource_lines(_, _, _, _)
resource_lines(self, tags, mdls, acc) ==
    IF tags = <<>> THEN acc
    ELSE LET tag  == Head(tags)
             file == self[tag]
         IN  IF file = None THEN resource_lines(self, Tail(tags), mdls, acc)
             ELSE LET got == get_file_uti(file, mdls[tag])
                  IN  IF got.raised # ""
                      THEN [raised |-> got.raised, xml |-> acc.xml, calls |-> acc.calls \o got.calls]
                      ELSE resource_lines(self, Tail(tags), mdls,
                               [raised |-> "",
                                xml    |-> Append(acc.xml, [tag |-> tag, file |-> basename(file),
                                                           uti |-> got.uti]),
                                calls  |-> acc.calls \o got.calls])

\* variant of choice_lines that leaves the description as it is
choice_lines_raw(pkgs, i) ==
    LET pkg  == pkgs[i]
        desc == pkg.description
    IN  << [tag |-> "choice", id |-> i, title |-> repr(pkg.title), description |-> repr(desc)],
           [tag |-> "choice/pkg-ref", id |-> pkg.identifier],
           [tag |-> "/choice"] >>

\* create_distribution_xml, lines 627-631: the choice element of pkgs[i]
choice_lines(pkgs, i) ==
    LET pkg  == pkgs[i]
        desc == replace(pkg.description, "\n", " ")
    IN  << [tag |-> "choice", id |-> i, title |-> repr(pkg.title), description |-> repr(desc)],
           [tag |-> "choice/pkg-ref", id |-> pkg.identifier],
           [tag |-> "/choice"] >>

\* variant of the loop of lines 627-631 that writes the choice element of
\* the last descriptor only
all_choice_lines_last(pkgs, i) ==
    IF Len(pkgs) = 0 THEN <<>> ELSE choice_lines(pkgs, Len(pkgs))

RECURSIVE all_choice_lines(_, _)
all_choice_lines(pkgs, i) ==
    IF i > Len(pkgs) THEN <<>> ELSE choice_lines(pkgs, i) \o all_choice_lines(pkgs, i + 1)

\* variant of create_distribution_xml that writes the options element for
\* every distribution
create_distribution_xml_options(self, pkgs, target_lib_dir, mdls) ==
    LET head  == << [tag |-> "?xml"],
                    [tag |-> "installer-gui-script"],
                    [tag |-> "title", text |-> self.title],
                    [tag |-> "domain"] >>
        opts  == << [tag |-> "options", hostArchitectures |-> self.arch] >>
        fixed == << [tag |-> "background"],
                    [tag |-> "volume-check", script |-> "checkForPythonInstall()"] >>
        res   == resource_lines(self, <<"welcome", "readme", "license">>, mdls,
                                [raised |-> "", xml |-> <<>>, calls |-> <<>>])
        lines == << [tag |-> "choices-outline"] >>
                 \o [i \in 1..Len(pkgs) |-> [tag |-> "line", choice |-> i]]
                 \o << [tag |-> "/choices-outline"] >>
        refs  == [i \in 1..Len(pkgs) |->
                     [tag |-> "pkg-ref", id |-> pkgs[i].identifier,
                      version |-> pkgs[i].version, name |-> pkgs[i].name]]
        tail  == << [tag |-> "script", function |-> "checkForPythonInstall",
                     site_packages_dir |-> target_lib_dir,
                     python_ver |-> format_d(self.sys.version_info[1]) \o <<".">>
                                    \o format_d(self.sys.version_info[2])],
                    [tag |-> "/installer-gui-script"] >>
    IN  IF res.raised # ""
        THEN [raised |-> res.raised, xml |-> <<>>, calls |-> res.calls]
        ELSE [raised |-> "",
              xml    |-> head \o opts \o fixed \o res.xml \o lines
                         \o all_choice_lines(pkgs, 1) \o refs \o tail,
              calls  |-> res.calls]

\* the list xml of create_distribution_xml, one record per element of the
\* list, and the tool calls made for it; nothing is written when it raises
create_distribution_xml(self, pkgs, target_lib_dir, mdls) ==
    LET head  == << [tag |-> "?xml"],
                    [tag |-> "installer-gui-script"],
                    [tag |-> "title", text |-> self.title],
                    [tag |-> "domain"] >>
        opts  == IF self.distribution.has_ext_modules
                 THEN << [tag |-> "options", hostArchitectures |-> self.arch] >>
                 ELSE <<>>
        fixed == << [tag |-> "background"],
                    [tag |-> "volume-check", script |-> "checkForPythonInstall()"] >>
        res   == resource_lines(self, <<"welcome", "readme", "license">>, mdls,
                                [raised |-> "", xml |-> <<>>, calls |-> <<>>])
        lines == << [tag |-> "choices-outline"] >>
                 \o [i \in 1..Len(pkgs) |-> [tag |-> "line", choice |-> i]]
                 \o << [tag |-> "/choices-outline"] >>
        refs  == [i \in 1..Len(pkgs) |->
                     [tag |-> "pkg-ref", id |-> pkgs[i].identifier,
                      version |-> pkgs[i].version, name |-> pkgs[i].name]]
        tail  == << [tag |-> "script", function |-> "checkForPythonInstall",
                     site_packages_dir |-> target_lib_dir,
                     python_ver |-> format_d(self.sys.version_info[1]) \o <<".">>
                                    \o format_d(self.sys.version_info[2])],
                    [tag |-> "/installer-gui-script"] >>
    IN  IF res.raised # ""
        THEN [raised |-> res.raised, xml |-> <<>>, calls |-> res.calls]
        ELSE [raised |-> "",
              xml    |-> head \o opts \o fixed \o res.xml \o lines
                         \o all_choice_lines(pkgs, 1) \o refs \o tail,
              calls  |-> res.calls]

(***************************************************************************)
(* finalize_options                                                        *)
(***************************************************************************)

\* ConfigParser.readfp of a second source: its sections and keys are added
\* to, and override, those already read.  A config_str or config_file
\* option that is not given (None) is the empty configuration.
config_read(config, more) ==
    [sec \in DOMAIN config \cup DOMAIN more |->
        IF sec \notin DOMAIN more THEN config[sec]
        ELSE IF sec \notin DOMAIN config THEN more[sec]
        ELSE more[sec] @@ config[sec]]

finalize_options(self) ==
    LET bdist_dir == normpath(IF self.bdist_dir = None
                              THEN path_join(self.bdist_base, S_osxinst)
                              ELSE self.bdist_dir)
        config1   == config_read(self.config, self.config_str)
        config2   == config_read(config1, self.config_file)
        conf      == [self EXCEPT !.config = config2]
    IN  [self EXCEPT
            !.bdist_dir = bdist_dir,
            !.config    = config2,
            !.title     = IF @ = None
                          THEN get_config_value(conf, "title", S_globals, self.distribution.name)
                          ELSE @,
            !.welcome   = IF @ = None THEN get_config_value(conf, "welcome", S_globals, None) ELSE @,
            !.readme    = IF @ = None THEN get_config_value(conf, "readme", S_globals, None) ELSE @,
            !.license   = IF @ = None THEN get_config_value(conf, "license", S_globals, None) ELSE @,
            !.arch      = IF @ = None THEN get_python_arch(self.sys.cflags) ELSE @,
            !.id_prefix = id_prefix_of(self.distribution.url)]

(***************************************************************************)
(* The command as a state machine: finalize_options, then run, one action  *)
(* per step of run.                                                        *)
(***************************************************************************)

VARIABLES
    pc,        \* the step the command is at; "done" and "aborted" are final
    raised,    \* the exception that ended the command, "" if none
    self,      \* the command object (options, config, distribution, sys)
    install,   \* what the install commands report and stage
    fs,        \* the file system the command reads and writes
    loc,       \* the local variables of run
    contents,  \* what get_installed_contents returned to create_package_objs
    sh_file,   \* mkpkg.sh: [opened, closed, lines]
    calls,     \* the external tool invocations made, in order
    pair       \* two builds side by side, for comparing their descriptors

vars == <<pc, raised, self, install, fs, loc, contents, sh_file, calls, pair>>

NoLocals ==
    [stage_dir |-> None, stage_mod_dir |-> None, pkgs_dir |-> None, resources_dir |-> None,
     dist_xml_file |-> None, product_pkg_name |-> None, stage_lib_dir |-> None,
     stage_scripts_dir |-> None, target_lib_dir |-> None, target_scripts_dir |-> None,
     pkgs |-> <<>>, i |-> 0]

NoPair == [ran |-> FALSE, a |-> <<>>, b |-> <<>>, pkgs_a |-> <<>>, pkgs_b |-> <<>>]

\* an exception leaves run: nothing after the raising statement happens
Abort(exc) == pc' = "aborted" /\ raised' = exc

\* distutils calls finalize_options before run
FinalizeOptions ==
    /\ pc = "finalize_options"
    /\ self' = finalize_options(self)
    /\ pc' = "run"
    /\ UNCHANGED <<raised, install, fs, loc, contents, sh_file, calls, pair>>

\* "%s.%s-py%d.%d.pkg" and "%s.macosx-py%d.%d.pkg", lines 198-201
pkg_base_name(self_) ==
    LET fullname == self_.distribution.name \o <<"-">> \o self_.distribution.version
        ver      == format_d(self_.sys.version_info[1]) \o <<".">>
                    \o format_d(self_.sys.version_info[2]) \o S_pkg_ext
    IN  IF self_.distribution.has_ext_modules
        THEN fullname \o <<".">> \o self_.sys.get_platform \o S_dash_py \o ver
        ELSE fullname \o S_macosx_py \o ver

\* variant of the start of run without the platform check
RunStartAnywhere ==
    /\ pc = "run"
    /\ fs' = IF ~self.skip_build THEN [fs EXCEPT !.built = TRUE] ELSE fs
    /\ loc' = [loc EXCEPT
                  !.stage_dir        = path_join(self.bdist_dir, S_stage),
                  !.stage_mod_dir    = path_join(self.bdist_dir, S_stage_mod),
                  !.pkgs_dir         = path_join(self.bdist_dir, S_pkgs),
                  !.resources_dir    = path_join(self.bdist_dir, S_resources),
                  !.dist_xml_file    = path_join(self.bdist_dir, S_Distribution),
                  !.product_pkg_name = path_join(self.dist_dir, pkg_base_name(self))]
    /\ pc' = "do_install"
    /\ UNCHANGED <<raised, self, install, contents, sh_file, calls, pair>>

\* run, lines 180-202: the platform check, the build, the paths
RunStart ==
    /\ pc = "run"
    /\ IF self.sys.platform # "darwin"
       THEN /\ Abort("DistutilsPlatformError")
            /\ UNCHANGED <<fs, loc>>
       ELSE /\ fs' = IF ~self.skip_build THEN [fs EXCEPT !.built = TRUE] ELSE fs
            /\ loc' = [loc EXCEPT
                          !.stage_dir        = path_join(self.bdist_dir, S_stage),
                          !.stage_mod_dir    = path_join(self.bdist_dir, S_stage_mod),
                          !.pkgs_dir         = path_join(self.bdist_dir, S_pkgs),
                          !.resources_dir    = path_join(self.bdist_dir, S_resources),
                          !.dist_xml_file    = path_join(self.bdist_dir, S_Distribution),
                          !.product_pkg_name = path_join(self.dist_dir, pkg_base_name(self))]
            /\ pc' = "do_install"
            /\ UNCHANGED raised
    /\ UNCHANGED <<self, install, contents, sh_file, calls, pair>>

\* variant of the loop of do_install that stops at a directory whose name
\* begins with site-packages
RECURSIVE site_packages_root_prefix(_)
site_packages_root_prefix(stage_lib_dir) ==
    IF startswith(basename(stage_lib_dir), S_site_packages)
    THEN [raised |-> "", value |-> stage_lib_dir]
    ELSE IF ~contains(stage_lib_dir, S_site_packages)
    THEN [raised |-> "DistutilsInternalError", value |-> None]
    ELSE site_packages_root_prefix(dirname(stage_lib_dir))

\* do_install, lines 314-317: up to the site-packages directory
RECURSIVE site_packages_root(_)
site_packages_root(stage_lib_dir) ==
    IF basename(stage_lib_dir) = S_site_packages
    THEN [raised |-> "", value |-> stage_lib_dir]
    ELSE IF ~contains(stage_lib_dir, S_site_packages)
    THEN [raised |-> "DistutilsInternalError", value |-> None]
    ELSE site_packages_root(dirname(stage_lib_dir))

\* run, lines 204-206, and do_install
DoInstall ==
    /\ pc = "do_install"
    /\ LET root == site_packages_root(install.install_lib_dir)
       IN  IF root.raised # ""
           THEN /\ Abort(root.raised)
                /\ UNCHANGED <<fs, loc>>
           ELSE /\ fs' = [fs EXCEPT !.installed = TRUE,
                                    !.lib = install.lib,
                                    !.listing = install.listing]
                /\ loc' = [loc EXCEPT !.stage_lib_dir = root.value,
                                      !.stage_scripts_dir = install.install_scripts_dir]
                /\ pc' = "resolve"
                /\ UNCHANGED raised
    /\ UNCHANGED <<self, install, contents, sh_file, calls, pair>>

\* run, lines 211-215
ResolvePaths ==
    /\ pc = "resolve"
    /\ LET lib     == stage_dir_to_install_dir(loc.stage_lib_dir, loc.stage_dir)
           scripts == stage_dir_to_install_dir(loc.stage_scripts_dir, loc.stage_dir)
       IN  IF lib.raised # ""
           THEN Abort(lib.raised) /\ UNCHANGED loc
           ELSE IF scripts.raised # ""
           THEN Abort(scripts.raised) /\ loc' = [loc EXCEPT !.target_lib_dir = lib.value]
           ELSE /\ loc' = [loc EXCEPT !.target_lib_dir = lib.value,
                                      !.target_scripts_dir = scripts.value]
                /\ pc' = "create_package_objs"
                /\ UNCHANGED raised
    /\ UNCHANGED <<self, install, fs, contents, sh_file, calls, pair>>

\* run, lines 217-218, and create_package_objs
CreatePackageObjs ==
    /\ pc = "create_package_objs"
    /\ LET made == create_package_objs(self, fs.lib, fs.listing, fs.mod, loc)
       IN  /\ contents' = made.contents
           /\ fs' = [fs EXCEPT !.mod = made.mod]
           /\ IF made.raised # ""
              THEN Abort(made.raised) /\ UNCHANGED loc
              ELSE /\ loc' = [loc EXCEPT !.pkgs = made.pkgs]
                   /\ pc' = "open_script"
                   /\ UNCHANGED raised
    /\ UNCHANGED <<self, install, sh_file, calls, pair>>

\* variant of lines 220-230 that goes on to init_resources without the
\* loop over the descriptors
OpenScriptNoLoop ==
    /\ pc = "open_script"
    /\ sh_file' = [opened |-> TRUE, closed |-> FALSE,
                   lines  |-> << [kind |-> "comment", arg |-> self.distribution.name],
                                 [kind |-> "comment", arg |-> <<>>],
                                 [kind |-> "comment", arg |-> S_pkgs],
                                 [kind |-> "mkdir", arg |-> loc.pkgs_dir] >>]
    /\ fs' = [fs EXCEPT !.dirs = @ \cup {"pkgs"}]
    /\ loc' = [loc EXCEPT !.i = 1]
    /\ pc' = "init_resources"
    /\ UNCHANGED <<raised, self, install, contents, calls, pair>>

\* run, lines 220-230: mkpkg.sh is opened and the pkgs directory made
OpenScript ==
    /\ pc = "open_script"
    /\ sh_file' = [opened |-> TRUE, closed |-> FALSE,
                   lines  |-> << [kind |-> "comment", arg |-> self.distribution.name],
                                 [kind |-> "comment", arg |-> <<>>],
                                 [kind |-> "comment", arg |-> S_pkgs],
                                 [kind |-> "mkdir", arg |-> loc.pkgs_dir] >>]
    /\ fs' = [fs EXCEPT !.dirs = @ \cup {"pkgs"}]
    /\ loc' = [loc EXCEPT !.i = 1]
    /\ pc' = IF Len(loc.pkgs) = 0 THEN "init_resources" ELSE "pkgbuild"
    /\ UNCHANGED <<raised, self, install, contents, calls, pair>>

\* what pkgbuild and productbuild print with an exit status
ToolResult(returncode) ==
    [returncode |-> returncode,
     out        |-> IF returncode = 0 THEN <<>> ELSE <<"o", "u", "t">>,
     err        |-> IF returncode = 0 THEN <<>> ELSE <<"e", "r", "r">>]

\* variant of the loop body that writes the command to mkpkg.sh whatever
\* the exit status of the tool
PkgbuildWritten ==
    /\ pc = "pkgbuild"
    /\ \E returncode \in {0, 1} :
         LET pkg      == loc.pkgs[loc.i]
             pkg_name == path_join(loc.pkgs_dir, pkg.name)
             cmd      == pkgbuild_cmd(pkg_name, pkg.stage_root, pkg.identifier, pkg.version,
                                      pkg.install_location)
             result   == ToolResult(returncode)
             exc      == call_raised(result)
         IN  /\ calls' = Append(calls, [cmd |-> cmd, returncode |-> returncode,
                                        out |-> result.out, logged |-> call_logged(result)])
             /\ sh_file' = [sh_file EXCEPT !.lines = Append(@, [kind |-> "cmd", arg |-> cmd])]
             /\ IF exc # ""
                THEN Abort(exc) /\ UNCHANGED <<fs, loc>>
                ELSE /\ fs' = [fs EXCEPT !.pkgs = @ \cup {pkg_name}]
                     /\ loc' = [loc EXCEPT !.i = @ + 1]
                     /\ pc' = IF loc.i = Len(loc.pkgs) THEN "init_resources" ELSE "pkgbuild"
                     /\ UNCHANGED raised
    /\ UNCHANGED <<self, install, contents, pair>>

\* run, lines 232-236: one iteration of the loop; the tool's exit status
\* is the tool's to choose
Pkgbuild ==
    /\ pc = "pkgbuild"
    /\ \E returncode \in {0, 1} :
         LET pkg      == loc.pkgs[loc.i]
             pkg_name == path_join(loc.pkgs_dir, pkg.name)
             cmd      == pkgbuild_cmd(pkg_name, pkg.stage_root, pkg.identifier, pkg.version,
                                      pkg.install_location)
             result   == ToolResult(returncode)
             exc      == call_raised(result)
         IN  /\ calls' = Append(calls, [cmd |-> cmd, returncode |-> returncode,
                                        out |-> result.out, logged |-> call_logged(result)])
             /\ IF exc # ""
                THEN Abort(exc) /\ UNCHANGED <<fs, sh_file, loc>>
                ELSE /\ fs' = [fs EXCEPT !.pkgs = @ \cup {pkg_name}]
                     /\ sh_file' = [sh_file EXCEPT !.lines = Append(@, [kind |-> "cmd", arg |-> cmd])]
                     /\ loc' = [loc EXCEPT !.i = @ + 1]
                     /\ pc' = IF loc.i = Len(loc.pkgs) THEN "init_resources" ELSE "pkgbuild"
                     /\ UNCHANGED raised
    /\ UNCHANGED <<self, install, contents, pair>>

\* variant of init_resources that writes welcome.html and does not record
\* it in self.welcome
InitResourcesUnrecorded ==
    /\ pc = "init_resources"
    /\ LET given == {self[t] : t \in {"welcome", "readme", "license"}} \ {None}
       IN  fs' = [fs EXCEPT
                     !.dirs = @ \cup {"resources"},
                     !.resources = @ \cup {basename(f) : f \in given}
                                     \cup (IF self.welcome = None THEN {S_welcome_html} ELSE {})
                                     \cup {S_background}]
    /\ pc' = "create_distribution_xml"
    /\ UNCHANGED <<raised, self, install, loc, contents, sh_file, calls, pair>>

\* run, lines 238-239, and init_resources
InitResources ==
    /\ pc = "init_resources"
    /\ LET given == {self[t] : t \in {"welcome", "readme", "license"}} \ {None}
           file_name == path_join(loc.resources_dir, S_welcome_html)
       IN  /\ fs' = [fs EXCEPT
                        !.dirs = @ \cup {"resources"},
                        !.resources = @ \cup {basename(f) : f \in given}
                                        \cup (IF self.welcome = None THEN {S_welcome_html} ELSE {})
                                        \cup {S_background}]
           /\ self' = IF self.welcome = None THEN [self EXCEPT !.welcome = file_name] ELSE self
    /\ pc' = "create_distribution_xml"
    /\ UNCHANGED <<raised, install, loc, contents, sh_file, calls, pair>>

\* what mdls may answer: a type identifier, a value that is none, a failure
MdlsResults ==
    { [returncode |-> 0, out |-> <<"p", ".", "t">>, err |-> <<>>],
      [returncode |-> 0, out |-> <<"(", "n", ")">>, err |-> <<>>],
      [returncode |-> 1, out |-> <<>>, err |-> <<"e", "r", "r">>] }

\* run, lines 241-247, and create_distribution_xml
CreateDistributionXml ==
    /\ pc = "create_distribution_xml"
    /\ sh_file' = [sh_file EXCEPT !.lines = @ \o << [kind |-> "comment", arg |-> <<>>],
                                                    [kind |-> "mkdir", arg |-> self.dist_dir] >>]
    /\ \E mdls \in [{"welcome", "readme", "license"} -> MdlsResults] :
         \* an answer is drawn only for the files mdls is asked about
         /\ \A t \in DOMAIN mdls :
                (self[t] = None \/ lower(splitext(self[t])[2]) = S_html)
                    => mdls[t] = [returncode |-> 0, out |-> <<"p", ".", "t">>, err |-> <<>>]
         /\ LET made == create_distribution_xml(self, loc.pkgs, loc.target_lib_dir, mdls)
            IN  /\ calls' = calls \o made.calls
                /\ IF made.raised # ""
                   THEN Abort(made.raised) /\ fs' = [fs EXCEPT !.dirs = @ \cup {"dist"}]
                   ELSE /\ fs' = [fs EXCEPT !.dirs = @ \cup {"dist"}, !.xml = made.xml]
                        /\ pc' = "productbuild"
                        /\ UNCHANGED raised
    /\ UNCHANGED <<self, install, loc, contents, pair>>

\* variant of lines 248-249 that leaves the command out of mkpkg.sh
ProductbuildUnrecorded ==
    /\ pc = "productbuild"
    /\ \E returncode \in {0, 1} :
         LET cmd == productbuild_cmd(loc.product_pkg_name, loc.dist_xml_file, loc.pkgs_dir,
                                     loc.resources_dir)
             result == ToolResult(returncode)
             exc == call_raised(result)
         IN  /\ calls' = Append(calls, [cmd |-> cmd, returncode |-> returncode,
                                        out |-> result.out, logged |-> call_logged(result)])
             /\ IF exc # ""
                THEN Abort(exc) /\ UNCHANGED fs
                ELSE /\ fs' = [fs EXCEPT !.product = loc.product_pkg_name]
                     /\ pc' = "remove_temp"
                     /\ UNCHANGED raised
    /\ UNCHANGED <<self, install, loc, contents, sh_file, pair>>

\* run, lines 248-249
Productbuild ==
    /\ pc = "productbuild"
    /\ \E returncode \in {0, 1} :
         LET cmd == productbuild_cmd(loc.product_pkg_name, loc.dist_xml_file, loc.pkgs_dir,
                                     loc.resources_dir)
             result == ToolResult(returncode)
             exc == call_raised(result)
         IN  /\ calls' = Append(calls, [cmd |-> cmd, returncode |-> returncode,
                                        out |-> result.out, logged |-> call_logged(result)])
             /\ IF exc # ""
                THEN Abort(exc) /\ UNCHANGED <<fs, sh_file>>
                ELSE /\ fs' = [fs EXCEPT !.product = loc.product_pkg_name]
                     /\ sh_file' = [sh_file EXCEPT !.lines = Append(@, [kind |-> "cmd", arg |-> cmd])]
                     /\ pc' = "remove_temp"
                     /\ UNCHANGED raised
    /\ UNCHANGED <<self, install, loc, contents, pair>>

\* run, lines 251-255: remove_tree of bdist_dir unless keep_temp, and close
RemoveTemp ==
    /\ pc = "remove_temp"
    /\ fs' = IF ~self.keep_temp /\ ~self.dry_run
             THEN [fs EXCEPT !.removed = TRUE, !.lib = EmptyDir, !.listing = <<>>,
                             !.mod = [exists |-> FALSE, entries |-> EmptyDir],
                             !.dirs = @ \ {"pkgs", "resources"}, !.pkgs = {},
                             !.resources = {}, !.xml = <<>>]
             ELSE fs
    /\ sh_file' = [sh_file EXCEPT !.closed = TRUE]
    /\ pc' = "done"
    /\ UNCHANGED <<raised, self, install, loc, contents, calls, pair>>

Next ==
    \/ FinalizeOptions
    \/ RunStart
    \/ DoInstall
    \/ ResolvePaths
    \/ CreatePackageObjs
    \/ OpenScript
    \/ Pkgbuild
    \/ InitResources
    \/ CreateDistributionXml
    \/ Productbuild
    \/ RemoveTemp

(***************************************************************************)
(* Inputs.  Every specification starts the command on a set of command    *)
(* objects (options, configuration, distribution, interpreter), of         *)
(* staged installs and of stage_mod directories left by earlier builds.    *)
(***************************************************************************)

\* names of children of the staged library directory
N_xmods == <<"x", "-", "m", "o", "d", "s">>
N_egg   == <<"e", ".", "e", "g", "g", "-", "i", "n", "f", "o">>
N_dot   == S_egg_info

LibNames == {N_xmods, N_egg, N_dot}

\* a child is a file, or a directory whose __init__.py is absent, a file
\* or itself a directory
Entries(origin) ==
    {[isdir |-> FALSE, init |-> "none", origin |-> origin, holds |-> {}]}
    \cup {[isdir |-> TRUE, init |-> i, origin |-> origin, holds |-> {}] :
              i \in {"none", "file", "dir"}}

\* the largest number of children of a staged library directory
MaxChildren == 2

Dirs(names, n) ==
    UNION {[S -> Entries("install")] : S \in {T \in SUBSET names : Cardinality(T) <= n}}

\* the orders in which os.listdir may return the names of S
Orders(S) ==
    {l \in [1..Cardinality(S) -> S] : \A i, j \in 1..Cardinality(S) : i # j => l[i] # l[j]}

Installs(dirs, lib_dirs, scripts_dirs) ==
    UNION {{[install_lib_dir |-> l, install_scripts_dir |-> sc, lib |-> d, listing |-> o] :
                l \in lib_dirs, sc \in scripts_dirs, o \in Orders(DOMAIN d)} : d \in dirs}

D_pkgx == <<"p", "k", "g", ".", "x">>
D_d    == <<"d">>
V_1    == <<"1", ".", "0">>
V_2    == <<"2", ".", "0", "b">>
U_ab8  == <<"h", ":", "/", "/", "a", ".", "b", ":", "8", "/", "p">>
U_ab   == <<"s", ":", "/", "/", "a", ".", "b", "/", "q">>
U_cd   == <<"h", ":", "/", "/", "c", ".", "d">>

P_bdist       == <<"/", "b">>
P_dist        == <<"d", "i", "s", "t">>
P_lib         == <<"/", "b", "/", "s", "t", "a", "g", "e", "/", "L", "/", "s", "i", "t", "e", "-", "p", "a", "c", "k", "a", "g", "e", "s">>
P_lib_sub     == <<"/", "b", "/", "s", "t", "a", "g", "e", "/", "L", "/", "s", "i", "t", "e", "-", "p", "a", "c", "k", "a", "g", "e", "s", "/", "s", "u", "b">>
P_lib_other   == <<"/", "b", "/", "s", "t", "a", "g", "e", "/", "L", "/", "l", "i", "b">>
P_lib_outside == <<"/", "o", "/", "s", "i", "t", "e", "-", "p", "a", "c", "k", "a", "g", "e", "s">>
P_scripts     == <<"/", "b", "/", "s", "t", "a", "g", "e", "/", "L", "/", "b", "i", "n">>

F_x86_64   == <<"-", "a", "r", "c", "h", " ", "x", "8", "6", "_", "6", "4">>
F_i386_ppc == <<"-", "a", "r", "c", "h", " ", "i", "3", "8", "6", " ", "-", "a", "r", "c", "h", " ", "p", "p", "c">>

\* a configuration with a global title and with titles and multi-line
\* descriptions for a package, the modules bundle and the scripts bundle
Conf_1 ==
    (S_globals :> ("title" :> <<"G">>))
    @@ (N_xmods :> ("title" :> <<"T">> @@ "description" :> <<"a", "\n", "b">>))
    @@ (S_mods_section :> ("description" :> <<"i", "t", "'", "s", "\n", "\"", "q", "\"", "\\">>))
    @@ (S_scripts_section :> ("title" :> <<"d", "o", "n", "'", "t">>
                              @@ "description" :> <<"\n", "a", "\n", "\n">>))

Distributions(names, versions, urls, pure, ext, scripts) ==
    {[name |-> n, version |-> v, url |-> u, has_pure_modules |-> p, has_ext_modules |-> e,
      has_scripts |-> sc] :
         n \in names, v \in versions, u \in urls, p \in pure, e \in ext, sc \in scripts}

Interpreters(platforms, version_infos, cflags) ==
    {[platform |-> p, version_info |-> vi, cflags |-> f, get_platform |-> <<"m", "-", "1", "0">>] :
         p \in platforms, vi \in version_infos, f \in cflags}

\* the command object after initialize_options and the parsing of the
\* command line: o holds the options that were given
CommandObject(distribution, sys, o) ==
    [bdist_dir |-> o.bdist_dir, bdist_base |-> P_bdist, dist_dir |-> P_dist,
     title |-> None, welcome |-> o.welcome, readme |-> o.readme, license |-> None,
     skip_build |-> FALSE, keep_temp |-> o.keep_temp, config_file |-> EmptyConfig,
     config_str |-> o.config_str, arch |-> None, single_lib_pkg |-> o.single_lib_pkg,
     id_prefix |-> None, config |-> EmptyConfig, dry_run |-> FALSE,
     distribution |-> distribution, sys |-> sys]

Options(bdist_dirs, welcomes, readmes, keeps, configs, singles) ==
    {[bdist_dir |-> b, welcome |-> w, readme |-> r, keep_temp |-> k, config_str |-> c,
      single_lib_pkg |-> s] :
         b \in bdist_dirs, w \in welcomes, r \in readmes, k \in keeps, c \in configs,
         s \in singles}

Commands(distributions, interpreters, options) ==
    {CommandObject(d, i, o) : d \in distributions, i \in interpreters, o \in options}

NoMod == [exists |-> FALSE, entries |-> EmptyDir]

\* stage_mod as an earlier build with keep_temp left it
EarlierMod(name, isdir) ==
    [exists  |-> TRUE,
     entries |-> (name :> [isdir |-> isdir, init |-> "none", origin |-> "earlier", holds |-> {}])]

InitOf(commands, installs, mods) ==
    /\ pc = "finalize_options"
    /\ raised = ""
    /\ self \in commands
    /\ install \in installs
    /\ fs \in {[built |-> FALSE, installed |-> FALSE, removed |-> FALSE, lib |-> EmptyDir,
                listing |-> <<>>, mod |-> m, dirs |-> {}, pkgs |-> {}, resources |-> {},
                xml |-> <<>>, product |-> None] : m \in mods}
    /\ loc = NoLocals
    /\ contents = NoContents
    /\ sh_file = [opened |-> FALSE, closed |-> FALSE, lines |-> <<>>]
    /\ calls = <<>>
    /\ pair = NoPair

(***************************************************************************)
(* Spec: the whole command, on a few staged library directories and many   *)
(* options.                                                                *)
(***************************************************************************)

MainLibs ==
    {d \in Dirs({N_xmods, N_egg}, 2) :
        /\ \A n \in DOMAIN d : d[n].init # "dir"
        /\ N_egg \in DOMAIN d => ~d[N_egg].isdir}

Init ==
    InitOf(Commands(Distributions({D_d}, {V_1}, {U_ab8}, {TRUE}, BOOLEAN, BOOLEAN),
                    Interpreters({"darwin", "linux"}, {<<3, 12, 0>>}, {F_x86_64}),
                    Options({P_bdist}, {None, <<"w", ".", "h", "t", "m", "l">>},
                            {None, <<"r", ".", "t", "x", "t">>}, BOOLEAN,
                            {EmptyConfig, Conf_1}, BOOLEAN)),
           Installs(MainLibs, {P_lib, P_lib_sub, P_lib_other, P_lib_outside}, {P_scripts}),
           {NoMod})

Spec == Init /\ [][Next]_vars

(***************************************************************************)
(* SpecPkgs: the command up to create_package_objs, on every staged library *)
(* directory of at most MaxChildren children, in both modes.               *)
(***************************************************************************)

InitPkgs ==
    InitOf(Commands(Distributions({D_d, D_pkgx}, {V_1}, {U_ab8}, BOOLEAN, {FALSE}, BOOLEAN),
                    Interpreters({"darwin"}, {<<3, 12, 0>>}, {F_x86_64}),
                    Options({P_bdist}, {None}, {None}, {TRUE}, {EmptyConfig, Conf_1}, BOOLEAN)),
           Installs(Dirs(LibNames, MaxChildren), {P_lib}, {P_scripts}),
           {NoMod, EarlierMod(N_xmods, TRUE), EarlierMod(N_xmods, FALSE)})

NextPkgs ==
    \/ FinalizeOptions
    \/ RunStart
    \/ DoInstall
    \/ ResolvePaths
    \/ CreatePackageObjs

SpecPkgs == InitPkgs /\ [][NextPkgs]_vars

(***************************************************************************)
(* SpecPath: stage_dir_to_install_dir on every staging root of at most     *)
(* MaxRootLen characters and every path of at most MaxDirLen characters.   *)
(* The scripts directory is the library directory, so that run resolves    *)
(* one path.                                                               *)
(***************************************************************************)

PathChars == {"/", "a", "."}

MaxRootLen == 3

MaxDirLen == 5

Strings(n) == UNION {[1..k -> PathChars] : k \in 0..n}

InitPath ==
    /\ pc = "resolve"
    /\ raised = ""
    /\ self = finalize_options(
                  CommandObject(
                      [name |-> D_d, version |-> V_1, url |-> U_ab8, has_pure_modules |-> TRUE,
                       has_ext_modules |-> FALSE, has_scripts |-> FALSE],
                      [platform |-> "darwin", version_info |-> <<3, 12, 0>>, cflags |-> F_x86_64,
                       get_platform |-> <<"m", "-", "1", "0">>],
                      [bdist_dir |-> P_bdist, welcome |-> None, readme |-> None,
                       keep_temp |-> TRUE, config_str |-> EmptyConfig, single_lib_pkg |-> FALSE]))
    /\ install = [install_lib_dir |-> None, install_scripts_dir |-> None, lib |-> EmptyDir,
                  listing |-> <<>>]
    /\ fs = [built |-> TRUE, installed |-> TRUE, removed |-> FALSE, lib |-> EmptyDir,
             listing |-> <<>>, mod |-> NoMod, dirs |-> {}, pkgs |-> {}, resources |-> {},
             xml |-> <<>>, product |-> None]
    /\ \E root \in Strings(MaxRootLen), dir \in Strings(MaxDirLen) :
           loc = [NoLocals EXCEPT !.stage_dir = root, !.stage_lib_dir = dir,
                                  !.stage_scripts_dir = dir]
    /\ contents = NoContents
    /\ sh_file = [opened |-> FALSE, closed |-> FALSE, lines |-> <<>>]
    /\ calls = <<>>
    /\ pair = NoPair

SpecPath == InitPath /\ [][ResolvePaths]_vars

(***************************************************************************)
(* SpecPair: two builds side by side.  Build a varies in the URL and the   *)
(* interpreter, build b in everything; both are finalized and their        *)
(* descriptors created in one step.                                        *)
(***************************************************************************)

PairLocals ==
    {[NoLocals EXCEPT !.stage_lib_dir = P_lib, !.stage_scripts_dir = P_scripts,
                      !.stage_mod_dir = path_join(P_bdist, S_stage_mod),
                      !.target_lib_dir = <<"/", "L">>, !.target_scripts_dir = <<"/", "B">>],
     [NoLocals EXCEPT !.stage_lib_dir = <<"/", "t", "/", "L">>,
                      !.stage_scripts_dir = <<"/", "t", "/", "B">>,
                      !.stage_mod_dir = <<"/", "t", "/", "M">>,
                      !.target_lib_dir = <<"/", "L">>, !.target_scripts_dir = <<"/", "B">>]}

PairLibs ==
    {d \in Dirs({N_xmods, N_egg}, 2) :
        /\ N_xmods \in DOMAIN d /\ d[N_xmods].init = "file"
        /\ N_egg \in DOMAIN d => d[N_egg].init # "dir"}

PairInterpreters == Interpreters({"darwin"}, {<<3, 12, 0>>, <<3, 12, 1>>, <<3, 1, 2>>}, {F_x86_64})

PairBuilds(versions, configs, singles, libs, locals) ==
    {[self |-> c, lib |-> i.lib, listing |-> i.listing, loc |-> l] :
        c \in Commands(Distributions({D_d}, versions, {U_ab8, U_ab, U_cd}, {TRUE}, {FALSE}, {TRUE}),
                       PairInterpreters,
                       Options({P_bdist}, {None}, {None}, {TRUE}, configs, singles)),
        i \in Installs(libs, {P_lib}, {P_scripts}),
        l \in locals}

InitPair ==
    /\ pc = "pair"
    /\ raised = ""
    /\ self = CommandObject(
                  [name |-> D_d, version |-> V_1, url |-> U_ab8, has_pure_modules |-> TRUE,
                   has_ext_modules |-> FALSE, has_scripts |-> FALSE],
                  [platform |-> "darwin", version_info |-> <<3, 12, 0>>, cflags |-> F_x86_64,
                   get_platform |-> <<"m", "-", "1", "0">>],
                  [bdist_dir |-> P_bdist, welcome |-> None, readme |-> None,
                   keep_temp |-> TRUE, config_str |-> EmptyConfig, single_lib_pkg |-> FALSE])
    /\ install = [install_lib_dir |-> None, install_scripts_dir |-> None, lib |-> EmptyDir,
                  listing |-> <<>>]
    /\ fs = [built |-> FALSE, installed |-> FALSE, removed |-> FALSE, lib |-> EmptyDir,
             listing |-> <<>>, mod |-> NoMod, dirs |-> {}, pkgs |-> {}, resources |-> {},
             xml |-> <<>>, product |-> None]
    /\ loc = NoLocals
    /\ contents = NoContents
    /\ sh_file = [opened |-> FALSE, closed |-> FALSE, lines |-> <<>>]
    /\ calls = <<>>
    /\ \E a \in PairBuilds({V_1}, {EmptyConfig}, {FALSE},
                           {d \in PairLibs : DOMAIN d = {N_xmods}},
                           {l \in PairLocals : l.stage_lib_dir = P_lib}),
          b \in PairBuilds({V_1, V_2}, {EmptyConfig, Conf_1}, BOOLEAN, PairLibs, PairLocals) :
           pair = [NoPair EXCEPT !.a = a, !.b = b]

\* both builds: finalize_options, then create_package_objs
BuildPair ==
    /\ pc = "pair"
    /\ LET self_a == finalize_options(pair.a.self)
           self_b == finalize_options(pair.b.self)
       IN  pair' = [pair EXCEPT
                       !.ran = TRUE,
                       !.a.self = self_a,
                       !.b.self = self_b,
                       !.pkgs_a = create_package_objs(self_a, pair.a.lib, pair.a.listing, NoMod,
                                                      pair.a.loc).pkgs,
                       !.pkgs_b = create_package_objs(self_b, pair.b.lib, pair.b.listing, NoMod,
                                                      pair.b.loc).pkgs]
    /\ pc' = "paired"
    /\ UNCHANGED <<raised, self, install, fs, loc, contents, sh_file, calls>>

SpecPair == InitPair /\ [][BuildPair]_vars


(***************************************************************************)
(* Properties of the classification (get_installed_contents), checked      *)
(* under SpecPkgs.                                                         *)
(***************************************************************************)

\* the number of times name occurs in list
Count(list, name) == Cardinality({i \in 1..Len(list) : list[i] = name})

Occurrences(name) ==
    Count(contents.pkgNames, name) + Count(contents.files, name)
        + Count(contents.dirNames, name)

\* name ends with .egg-info after a stem that is not made of dots only:
\* its extension is .egg-info
HasEggInfoExt(name) ==
    /\ endswith(name, S_egg_info)
    /\ \E i \in 1..(Len(name) - Len(S_egg_info)) : name[i] # "."

Listed ==
    {contents.pkgNames[i] : i \in 1..Len(contents.pkgNames)}
        \cup {contents.files[i] : i \in 1..Len(contents.files)}
        \cup {contents.dirNames[i] : i \in 1..Len(contents.dirNames)}

\* C1 as stated: the three lists of get_installed_contents partition the
\* children of the staged library directory, every child name is in
\* exactly one list and in it once.
C1_Partition ==
    contents.called =>
        /\ Listed \subseteq DOMAIN fs.lib
        /\ \A name \in DOMAIN fs.lib : Occurrences(name) = 1

\* C1, amended: every child that is a directory, or whose extension is not
\* .egg-info, is in exactly one of the three lists and in it once; a
\* non-directory child with the extension .egg-info is in none; the lists
\* hold nothing but children.
C1_PartitionExceptExcluded ==
    contents.called =>
        /\ Listed \subseteq DOMAIN fs.lib
        /\ \A name \in DOMAIN fs.lib :
               Occurrences(name) = IF ~fs.lib[name].isdir /\ HasEggInfoExt(name) THEN 0 ELSE 1

\* a directory of two children of which one is a package and the other an
\* excluded file has been classified
C1_Witness ==
    /\ contents.called
    /\ \E a, b \in DOMAIN fs.lib :
           /\ fs.lib[a].isdir /\ fs.lib[a].init = "file"
           /\ ~fs.lib[b].isdir /\ HasEggInfoExt(b)
           /\ Occurrences(a) = 1 /\ Occurrences(b) = 0

\* C2: get_installed_contents agrees with the reference classification: a
\* directory with the file __init__.py is among the packages, a directory
\* without it is among the directories and not among the files, and a
\* non-directory is among the files exactly when its extension is not
\* .egg-info.
C2_Classification ==
    contents.called =>
        \A name \in DOMAIN fs.lib :
            LET e == fs.lib[name]
            IN  /\ (e.isdir /\ e.init = "file") => Count(contents.pkgNames, name) > 0
                /\ (e.isdir /\ e.init # "file") =>
                       Count(contents.dirNames, name) > 0 /\ Count(contents.files, name) = 0
                /\ ~e.isdir => (Count(contents.files, name) > 0 <=> ~HasEggInfoExt(name))

\* a directory whose __init__.py is itself a directory, and a file named
\* .egg-info (which has no extension), have been classified
C2_Witness ==
    /\ contents.called
    /\ \E a, b \in DOMAIN fs.lib :
           /\ fs.lib[a].isdir /\ fs.lib[a].init = "dir" /\ Count(contents.dirNames, a) = 1
           /\ ~fs.lib[b].isdir /\ b = S_egg_info /\ Count(contents.files, b) = 1

(***************************************************************************)
(* Properties of the descriptors (create_package_objs), checked under      *)
(* SpecPkgs.  The descriptors exist once create_package_objs has returned. *)
(***************************************************************************)

Created == pc = "open_script"

\* the children of the staged library directory that pkgbuild finds under
\* the stage_root of pkg
Payload(pkg) ==
    IF pkg.stage_root = loc.stage_lib_dir
    THEN DOMAIN fs.lib
    ELSE IF pkg.stage_root = loc.stage_mod_dir
    THEN {name \in DOMAIN fs.lib :
              \E m \in DOMAIN fs.mod.entries :
                  \/ m = name /\ fs.mod.entries[m].origin = "install"
                  \/ name \in fs.mod.entries[m].holds}
    ELSE {name \in DOMAIN fs.lib : pkg.stage_root = loc.stage_lib_dir \o <<"/">> \o name}

\* C3: no child of the staged library directory with the extension
\* .egg-info, file or directory, is in the payload of a descriptor, in
\* default mode and in single-library-package mode.
C3_NoMetadataInPayload ==
    Created =>
        \A i \in 1..Len(loc.pkgs) :
            \A name \in DOMAIN fs.lib : HasEggInfoExt(name) => name \notin Payload(loc.pkgs[i])

\* the names of the components: the packages of the staged library
\* directory and the name of the distribution
PackageNames == {name \in DOMAIN fs.lib : fs.lib[name].isdir /\ fs.lib[name].init = "file"}

\* C6: when the package names and the distribution name are pairwise
\* distinct, the identifiers of the descriptors of one build are pairwise
\* distinct.
C6_DistinctIdentifiers ==
    Created =>
        (self.distribution.name \notin PackageNames =>
            \A i, j \in 1..Len(loc.pkgs) :
                i # j => loc.pkgs[i].identifier # loc.pkgs[j].identifier)

\* name without its last four characters, the extension .pkg
StripPkg(name) == SubSeq(name, 1, Len(name) - 4)

IdentifierOf(base) ==
    self.id_prefix \o <<"_">> \o base \o <<"_", "p", "y">>
        \o format_d(self.sys.version_info[1]) \o <<".">> \o format_d(self.sys.version_info[2])

\* C7 as stated: the identifier of every descriptor is
\* <prefix>_<base>_py<major>.<minor> with <base> the archive name without
\* .pkg, modules and scripts for the two bundles.
C7_IdentifierFromArchiveName ==
    Created =>
        \A i \in 1..Len(loc.pkgs) :
            /\ endswith(loc.pkgs[i].name, <<".", "p", "k", "g">>)
            /\ loc.pkgs[i].identifier = IdentifierOf(StripPkg(loc.pkgs[i].name))

\* C7, amended: the identifier of every descriptor is
\* <prefix>_<base>_py<major>.<minor>; <base> is the archive name without
\* .pkg for a package and for the single-library bundle, the distribution
\* name followed by -mods for modules.pkg and the distribution name
\* followed by -scripts for scripts.pkg.
C7_IdentifierFromBase ==
    Created =>
        \A i \in 1..Len(loc.pkgs) :
            LET pkg  == loc.pkgs[i]
                base == IF pkg.name = <<"m", "o", "d", "u", "l", "e", "s", ".", "p", "k", "g">>
                        THEN self.distribution.name \o <<"-", "m", "o", "d", "s">>
                        ELSE IF pkg.name = <<"s", "c", "r", "i", "p", "t", "s", ".", "p", "k", "g">>
                        THEN self.distribution.name \o <<"-", "s", "c", "r", "i", "p", "t", "s">>
                        ELSE StripPkg(pkg.name)
            IN  /\ endswith(pkg.name, <<".", "p", "k", "g">>)
                /\ pkg.identifier = IdentifierOf(base)

\* a package, the modules bundle and the scripts bundle of distribution d
\* have their identifiers
C7_Witness ==
    /\ Created
    /\ self.id_prefix = <<"b", ".", "a">>
    /\ Len(loc.pkgs) = 3
    /\ loc.pkgs[1].name = <<"p", "k", "g", ".", "x", "-", "m", "o", "d", "s", ".", "p", "k", "g">>
    /\ loc.pkgs[1].identifier = <<"b", ".", "a", "_", "p", "k", "g", ".", "x", "-", "m", "o", "d", "s",
                                  "_", "p", "y", "3", ".", "1", "2">>
    /\ loc.pkgs[2].identifier = <<"b", ".", "a", "_", "d", "-", "m", "o", "d", "s",
                                  "_", "p", "y", "3", ".", "1", "2">>
    /\ loc.pkgs[3].identifier = <<"b", ".", "a", "_", "d", "-", "s", "c", "r", "i", "p", "t", "s",
                                  "_", "p", "y", "3", ".", "1", "2">>

LibArchive(name) == <<"p", "k", "g", ".">> \o name \o <<".", "p", "k", "g">>

\* C10: in default mode there is exactly one descriptor for each package
\* name n of the classification, with archive name pkg.<n>.pkg, source
\* root the staged library directory joined with n and install location
\* the resolved library path joined with n, and every other descriptor is
\* modules.pkg or scripts.pkg.
C10_OneDescriptorPerPackage ==
    (Created /\ ~self.single_lib_pkg) =>
        /\ \A k \in 1..Len(contents.pkgNames) :
               LET n    == contents.pkgNames[k]
                   mine == {i \in 1..Len(loc.pkgs) : loc.pkgs[i].name = LibArchive(n)}
               IN  /\ Cardinality(mine) = 1
                   /\ \A i \in mine :
                          /\ loc.pkgs[i].stage_root = loc.stage_lib_dir \o <<"/">> \o n
                          /\ loc.pkgs[i].install_location = loc.target_lib_dir \o <<"/">> \o n
        /\ \A i \in 1..Len(loc.pkgs) :
               \/ \E k \in 1..Len(contents.pkgNames) :
                      loc.pkgs[i].name = LibArchive(contents.pkgNames[k])
               \/ loc.pkgs[i].name \in {<<"m", "o", "d", "u", "l", "e", "s", ".", "p", "k", "g">>,
                                        <<"s", "c", "r", "i", "p", "t", "s", ".", "p", "k", "g">>}

\* two packages and the scripts bundle have been described in default mode
C10_Witness ==
    /\ Created
    /\ ~self.single_lib_pkg
    /\ Len(contents.pkgNames) = 2
    /\ Len(loc.pkgs) = 3
    /\ \E i \in 1..2 :
           /\ loc.pkgs[i].name = LibArchive(N_xmods)
           /\ loc.pkgs[i].install_location =
                  <<"/", "L", "/", "s", "i", "t", "e", "-", "p", "a", "c", "k", "a", "g", "e", "s", "/">>
                      \o N_xmods

(***************************************************************************)
(* Properties of the install-path resolver (stage_dir_to_install_dir),     *)
(* checked under SpecPath: loc.stage_dir is the staging root R,            *)
(* loc.stage_lib_dir the path P and loc.target_lib_dir the result Q.       *)
(***************************************************************************)

Resolved == pc \in {"create_package_objs", "aborted"}

\* the names on the way from the root to the absolute path p
Components(p) == SelectSeq(split(normpath(p), "/"), LAMBDA c : c # <<>>)

\* the absolute path p is root or lies below the absolute path root
Under(p, root) ==
    /\ isabs(p)
    /\ isabs(root)
    /\ Len(Components(root)) <= Len(Components(p))
    /\ SubSeq(Components(p), 1, Len(Components(root))) = Components(root)

\* C4: for every absolute path P under the staging root R the
\* resolver returns an absolute Q, and R followed by Q is P after
\* normalization.
C4_RoundTrip ==
    (Resolved /\ Under(loc.stage_lib_dir, loc.stage_dir)) =>
        /\ raised = ""
        /\ isabs(loc.target_lib_dir)
        /\ normpath(loc.stage_dir \o loc.target_lib_dir) = normpath(loc.stage_lib_dir)

\* C5: for every path P that is not under the staging root R the resolver
\* raises DistutilsInternalError and returns no path.
C5_RaisesOutsideRoot ==
    (Resolved /\ isabs(loc.stage_lib_dir) /\ isabs(loc.stage_dir)
        /\ ~Under(loc.stage_lib_dir, loc.stage_dir)) =>
        raised = "DistutilsInternalError"

(***************************************************************************)
(* Identifier stability, checked under SpecPair.                           *)
(***************************************************************************)

\* the descriptors pair.pkgs_a[i] and pair.pkgs_b[j] are of the same
\* logical component: the same archive of the same distribution
SameComponent(i, j) ==
    /\ pair.pkgs_a[i].name = pair.pkgs_b[j].name
    /\ pair.a.self.distribution.name = pair.b.self.distribution.name

MajorMinor(build) == <<build.self.sys.version_info[1], build.self.sys.version_info[2]>>

\* C8: two builds with the same identifier prefix and the same runtime
\* major.minor give a component the same identifier, whatever the version
\* of the distribution, the staging paths, the configured titles and
\* descriptions and the other components; with the same prefix and
\* another major.minor they give it different identifiers.
C8_IdentifierStability ==
    pair.ran =>
        \A i \in 1..Len(pair.pkgs_a), j \in 1..Len(pair.pkgs_b) :
            (SameComponent(i, j) /\ pair.a.self.id_prefix = pair.b.self.id_prefix) =>
                (pair.pkgs_a[i].identifier = pair.pkgs_b[j].identifier
                    <=> MajorMinor(pair.a) = MajorMinor(pair.b))

\* two builds that differ in the URL, the micro version of the runtime,
\* the version of the distribution, the staging paths, the configuration
\* and the other components have the same identifier for a package
C8_Witness ==
    /\ pair.ran
    /\ pair.a.self.distribution.url # pair.b.self.distribution.url
    /\ pair.a.self.sys.version_info # pair.b.self.sys.version_info
    /\ pair.a.self.distribution.version # pair.b.self.distribution.version
    /\ pair.a.loc.stage_lib_dir # pair.b.loc.stage_lib_dir
    /\ pair.a.self.config_str # pair.b.self.config_str
    /\ Len(pair.pkgs_a) < Len(pair.pkgs_b)
    /\ \E j \in 2..Len(pair.pkgs_b) :
           /\ SameComponent(1, j)
           /\ pair.pkgs_a[1].title # pair.pkgs_b[j].title
           /\ pair.pkgs_a[1].identifier = pair.pkgs_b[j].identifier
           /\ pair.pkgs_a[1].identifier = <<"b", ".", "a", "_", "p", "k", "g", ".", "x", "-", "m", "o",
                                           "d", "s", "_", "p", "y", "3", ".", "1", "2">>

(***************************************************************************)
(* The choice elements of the installer description, checked under Spec.   *)
(***************************************************************************)

\* description with a space in the place of every newline
Spaced(description) ==
    [k \in 1..Len(description) |-> IF description[k] = "\n" THEN " " ELSE description[k]]

\* C9: the description attribute of the choice element of every descriptor
\* holds no newline; it is the description with every newline replaced by
\* one space, as repr writes it.
C9_NoNewlineInChoice ==
    fs.xml # <<>> =>
        \A i \in 1..Len(loc.pkgs) :
            LET mine == {k \in 1..Len(fs.xml) : fs.xml[k].tag = "choice" /\ fs.xml[k].id = i}
            IN  /\ Cardinality(mine) = 1
                /\ \A k \in mine :
                       /\ \A c \in 1..Len(fs.xml[k].description) : fs.xml[k].description[c] # "\n"
                       /\ fs.xml[k].description = repr(Spaced(loc.pkgs[i].description))

\* the installer description has been written for a scripts bundle whose
\* description has three newlines
C9_Witness ==
    /\ fs.xml # <<>>
    /\ \E i \in 1..Len(loc.pkgs) :
           /\ loc.pkgs[i].description = <<"\n", "a", "\n", "\n">>
           /\ \E k \in 1..Len(fs.xml) :
                  /\ fs.xml[k].tag = "choice"
                  /\ fs.xml[k].id = i
                  /\ fs.xml[k].description = <<"'", " ", "a", " ", " ", "'">>

(***************************************************************************)
(* The modules bundle and the single-library bundle, checked under         *)
(* SpecPkgs.                                                               *)
(***************************************************************************)

\* create_package_objs has been called in default mode and has returned
\* or raised
Classified == contents.called /\ pc \in {"open_script", "aborted"}

ModulesDescriptors == {i \in 1..Len(loc.pkgs) : loc.pkgs[i].name = S_modules_pkg}

\* name of the staged library directory is in the stage_mod directory, at
\* its top or in a directory of its name
InStageMod(name) ==
    /\ fs.mod.exists
    /\ name \in DOMAIN fs.mod.entries
    /\ \/ fs.mod.entries[name] = fs.lib[name]
       \/ name \in fs.mod.entries[name].holds

\* C11: in default mode create_package_objs returns exactly one
\* modules.pkg descriptor when the classification has a loose file or a
\* non-package directory and none otherwise; its install location is the
\* resolved library path, its source root the stage_mod directory, and
\* every loose file and non-package directory has been copied there.
C11_ModulesDescriptor ==
    Classified =>
        /\ raised = ""
        /\ Cardinality(ModulesDescriptors) =
               IF Len(contents.files) # 0 \/ Len(contents.dirNames) # 0 THEN 1 ELSE 0
        /\ \A i \in ModulesDescriptors :
               /\ loc.pkgs[i].install_location = loc.target_lib_dir
               /\ loc.pkgs[i].stage_root = loc.stage_mod_dir
               /\ \A k \in 1..Len(contents.files) : InStageMod(contents.files[k])
               /\ \A k \in 1..Len(contents.dirNames) : InStageMod(contents.dirNames[k])

SingleMode == Created /\ self.single_lib_pkg

LibraryBundles ==
    {i \in 1..Len(loc.pkgs) : loc.pkgs[i].name = LibArchive(self.distribution.name)}

ScriptsDescriptors == {i \in 1..Len(loc.pkgs) : loc.pkgs[i].name = S_scripts_pkg}

\* the library bundles are of the whole staged library directory, and the
\* descriptors are the library bundles and scripts.pkg, the latter exactly
\* when the distribution has scripts
SingleModeShape ==
    /\ \A i \in LibraryBundles :
           /\ loc.pkgs[i].stage_root = loc.stage_lib_dir
           /\ loc.pkgs[i].install_location = loc.target_lib_dir
    /\ Cardinality(ScriptsDescriptors) = IF self.distribution.has_scripts THEN 1 ELSE 0
    /\ Len(loc.pkgs) = Cardinality(LibraryBundles) + Cardinality(ScriptsDescriptors)

\* C12 as stated: in single-library-package mode there is exactly one
\* library bundle pkg.<distribution name>.pkg of the whole staged library
\* directory, installed at the resolved library path, whatever the staged
\* directory holds and whatever the distribution declares, and a scripts
\* descriptor exactly when the distribution has scripts.
C12_OneLibraryBundle ==
    SingleMode => (Cardinality(LibraryBundles) = 1 /\ SingleModeShape)

\* C12, amended: there is exactly one such library bundle when the
\* distribution declares pure or extension modules and none when it
\* declares neither, whatever the staged directory holds; a scripts
\* descriptor is added exactly when the distribution has scripts.
C12_OneLibraryBundleIfModules ==
    SingleMode =>
        /\ Cardinality(LibraryBundles) =
               IF self.distribution.has_pure_modules \/ self.distribution.has_ext_modules
               THEN 1 ELSE 0
        /\ SingleModeShape

\* a staged library directory of a package and a loose file has become one
\* library bundle, followed by the scripts bundle
C12_Witness ==
    /\ SingleMode
    /\ \E a, b \in DOMAIN fs.lib :
           /\ fs.lib[a].isdir /\ fs.lib[a].init = "file"
           /\ ~fs.lib[b].isdir
    /\ Len(loc.pkgs) = 2
    /\ loc.pkgs[1].name = <<"p", "k", "g", ".", "d", ".", "p", "k", "g">>
    /\ loc.pkgs[1].stage_root = P_lib
    /\ loc.pkgs[1].install_location =
           <<"/", "L", "/", "s", "i", "t", "e", "-", "p", "a", "c", "k", "a", "g", "e", "s">>
    /\ loc.pkgs[2].name = S_scripts_pkg

(***************************************************************************)
(* SpecArch: the whole command for distributions with and without          *)
(* extension modules, on several values of CFLAGS, with and without the    *)
(* arch option.                                                            *)
(***************************************************************************)

F_none        == <<>>
F_ppc         == S_arch_ppc
F_x86_64_ppc  == F_x86_64 \o <<" ">> \o S_arch_ppc
F_i386_x86_64 == S_arch_i386 \o <<" ">> \o F_x86_64

ArchFlags == {F_none, F_ppc, F_x86_64, F_i386_ppc, F_x86_64_ppc, F_i386_x86_64}

\* the value of the arch option when it is given; it is none of the
\* values that get_python_arch returns
A_given == <<"p", "p", "c", ",", "i", "3", "8", "6">>

InitArch ==
    InitOf({[c EXCEPT !.arch = a] :
                c \in Commands(Distributions({D_d}, {V_1}, {U_ab8}, {TRUE}, BOOLEAN, {FALSE}),
                               Interpreters({"darwin"}, {<<3, 12, 0>>}, ArchFlags),
                               Options({P_bdist}, {None}, {None}, {TRUE}, {EmptyConfig}, {FALSE})),
                a \in {None, A_given}},
           Installs(MainLibs, {P_lib}, {P_scripts}),
           {NoMod})

SpecArch == InitArch /\ [][Next]_vars

(***************************************************************************)
(* The architecture element of the installer description, checked under    *)
(* SpecArch.                                                               *)
(***************************************************************************)

OptionsLines == {k \in 1..Len(fs.xml) : fs.xml[k].tag = "options"}

\* C13: the installer description holds the options element with
\* hostArchitectures exactly when the distribution has extension modules,
\* whatever the arch value given or detected.
C13_OptionsIffExtModules ==
    fs.xml # <<>> =>
        Cardinality(OptionsLines) = IF self.distribution.has_ext_modules THEN 1 ELSE 0

\* the installer description of a distribution without extension modules
\* has been written without the options element although arch was given
C13_Witness ==
    /\ fs.xml # <<>>
    /\ ~self.distribution.has_ext_modules
    /\ self.arch = A_given
    /\ OptionsLines = {}

\* C14: for a distribution with extension modules and no arch option, the
\* hostArchitectures value holds x86_64 when CFLAGS holds -arch x86_64 and
\* ends with ppc, after a comma if it is not the first, when CFLAGS holds
\* -arch ppc.
C14_ArchFromFlags ==
    (fs.xml # <<>> /\ self.distribution.has_ext_modules /\ self.arch # A_given) =>
        \A k \in OptionsLines :
            LET value == fs.xml[k].hostArchitectures
            IN  /\ contains(self.sys.cflags, <<"-", "a", "r", "c", "h", " ", "x", "8", "6", "_", "6", "4">>)
                       => contains(value, <<"x", "8", "6", "_", "6", "4">>)
                /\ contains(self.sys.cflags, <<"-", "a", "r", "c", "h", " ", "p", "p", "c">>)
                       => (value = <<"p", "p", "c">> \/ endswith(value, <<",", "p", "p", "c">>))

(***************************************************************************)
(* Failures of the external tools and of the platform check, checked       *)
(* under Spec.                                                             *)
(***************************************************************************)

\* the invocations of pkgbuild and productbuild that exited with a status
\* other than zero
FailedBuilds ==
    {k \in 1..Len(calls) :
        calls[k].cmd.tool \in {"pkgbuild", "productbuild"} /\ calls[k].returncode # 0}

\* C15: when pkgbuild or productbuild exits with a status other than
\* zero, run has written the captured output and error streams to the log
\* and ends there with DistutilsExecError: no tool is invoked after it,
\* none is invoked again, and no product archive is written.
C15_AbortOnToolFailure ==
    \A k \in FailedBuilds :
        /\ k = Len(calls)
        /\ calls[k].logged = <<<<"o", "u", "t">>, <<"e", "r", "r">>>>
        /\ pc = "aborted"
        /\ raised = "DistutilsExecError"
        /\ fs.product = None
        /\ \A j \in 1..(k - 1) : calls[j].cmd # calls[k].cmd

\* pkgbuild has failed for the first of two components: the second has
\* not been built and productbuild has not been invoked
C15_Witness ==
    /\ pc = "aborted"
    /\ Len(loc.pkgs) = 2
    /\ Len(calls) = 1
    /\ calls[1].cmd.tool = "pkgbuild"
    /\ calls[1].returncode = 1
    /\ fs.pkgs = {}
    /\ fs.product = None

\* C16: on a platform other than darwin run raises DistutilsPlatformError
\* before any other step: nothing is built, nothing is installed, no file
\* or directory is made and no tool is invoked.
C16_PlatformCheckFirst ==
    self.sys.platform # "darwin" =>
        /\ pc \in {"finalize_options", "run", "aborted"}
        /\ pc = "aborted" => raised = "DistutilsPlatformError"
        /\ ~fs.built
        /\ ~fs.installed
        /\ fs.lib = EmptyDir
        /\ fs.mod = NoMod
        /\ fs.dirs = {} /\ fs.pkgs = {} /\ fs.resources = {}
        /\ fs.xml = <<>> /\ fs.product = None
        /\ ~sh_file.opened
        /\ calls = <<>>

\* run has ended on linux
C16_Witness ==
    /\ self.sys.platform = "linux"
    /\ pc = "aborted"
    /\ raised = "DistutilsPlatformError"
    /\ ~fs.built
    /\ calls = <<>>

(***************************************************************************)
(* The steps of run, each told by what it leaves behind: the staged        *)
(* install by fs.installed, the resolution of the install paths by the two *)
(* target directories, the classification by contents.called, the          *)
(* component builds by the pkgbuild invocations, init_resources by the     *)
(* resources directory, create_distribution_xml by the mdls invocations    *)
(* and the document, the product build by the productbuild invocation.     *)
(* Checked under Spec.                                                     *)
(***************************************************************************)

PathsResolved == loc.target_lib_dir # None /\ loc.target_scripts_dir # None

Invocations(tool) == SelectSeq(calls, LAMBDA c : c.cmd.tool = tool)

\* the loop of lines 232-236 has run to its end
ComponentsBuilt ==
    /\ sh_file.opened
    /\ Len(Invocations("pkgbuild")) = Len(loc.pkgs)
    /\ \A k \in 1..Len(loc.pkgs) : Invocations("pkgbuild")[k].returncode = 0

ResourcesInitialized == "resources" \in fs.dirs

DescriptionWritten == fs.xml # <<>>

\* the steps from the component builds on: pkgbuild is invoked once for
\* each descriptor, in the order of the descriptors and each after the one
\* before it has succeeded; init_resources comes after the last of them,
\* the description after init_resources, productbuild after the description
LaterStepsInOrder ==
    /\ Invocations("pkgbuild") # <<>> =>
           /\ sh_file.opened
           /\ PathsResolved
           /\ ~self.single_lib_pkg => contents.called
    /\ Len(Invocations("pkgbuild")) <= Len(loc.pkgs)
    /\ \A k \in 1..Len(Invocations("pkgbuild")) :
           /\ Invocations("pkgbuild")[k].cmd.identifier = loc.pkgs[k].identifier
           /\ Invocations("pkgbuild")[k].cmd.pkg_name = path_join(loc.pkgs_dir, loc.pkgs[k].name)
           /\ k < Len(Invocations("pkgbuild")) => Invocations("pkgbuild")[k].returncode = 0
    /\ Invocations("mdls") # <<>> => ComponentsBuilt
    /\ Invocations("productbuild") # <<>> => ComponentsBuilt
    /\ Len(Invocations("productbuild")) <= 1
    /\ ~fs.removed =>
           /\ ResourcesInitialized => ComponentsBuilt
           /\ Invocations("mdls") # <<>> => ResourcesInitialized
           /\ DescriptionWritten => ResourcesInitialized
           /\ Invocations("productbuild") # <<>> => DescriptionWritten
           /\ fs.product # None => Invocations("productbuild") # <<>>
    /\ fs.removed => fs.product # None

\* C17 as stated: the steps of run occur in the order staged install,
\* content classification, install-path resolution, component builds (one
\* for each descriptor), resource initialization, description generation,
\* product build, each after the one before it has completed.
C17_ClassificationBeforeResolution ==
    /\ contents.called => fs.installed
    /\ ~self.single_lib_pkg /\ loc.target_lib_dir # None => contents.called
    /\ LaterStepsInOrder

\* C17, amended: the order is staged install, install-path resolution,
\* content classification (default mode only), component builds (one for
\* each descriptor), resource initialization, description generation,
\* product build, each after the one before it has completed.
C17_ResolutionBeforeClassification ==
    /\ loc.target_lib_dir # None => fs.installed
    /\ contents.called => PathsResolved
    /\ LaterStepsInOrder

\* a run in default mode has gone through every step, with two components
C17_Witness ==
    /\ pc = "remove_temp"
    /\ fs.installed
    /\ PathsResolved
    /\ contents.called
    /\ Len(loc.pkgs) = 2
    /\ ComponentsBuilt
    /\ ResourcesInitialized
    /\ DescriptionWritten
    /\ fs.product # None

(***************************************************************************)
(* SpecXml: the whole command with and without each of the welcome, readme *)
(* and license files, with a welcome file whose extension is in upper      *)
(* case, in both modes, with and without extension modules and scripts.    *)
(* The temporary directory is kept, so the document stays to be read.      *)
(***************************************************************************)

R_welcome  == <<"w", ".", "h", "t", "m", "l">>
R_WELCOME  == <<"W", ".", "H", "T", "M", "L">>
R_readme   == <<"r", ".", "t", "x", "t">>
R_license  == <<"l", ".", "r", "t", "f">>

\* a configuration whose global section has every key finalize_options
\* may look for
Conf_globals ==
    S_globals :> ("title" :> <<"G">>
                  @@ "welcome" :> <<"c", ".", "h", "t", "m", "l">>
                  @@ "readme" :> <<"c", ".", "t", "x", "t">>
                  @@ "license" :> <<"c", ".", "r", "t", "f">>
                  @@ "arch" :> <<"x", "8", "6", "_", "6", "4">>)

\* a configuration with a title in its DEFAULT section and a section for
\* the package x-mods that has a description and no title
Conf_default ==
    (DEFAULTSECT :> ("title" :> <<"D">>))
    @@ (N_xmods :> ("description" :> <<"x">>))

N_m == <<"m", ".", "p", "y">>

\* staged library directories of one entry, and one with a package and a
\* module beside it
XmlLibs ==
    {d \in MainLibs : Cardinality(DOMAIN d) = 1}
    \cup {(N_xmods :> [isdir |-> TRUE, init |-> "file", origin |-> "install", holds |-> {}])
          @@ (N_m :> [isdir |-> FALSE, init |-> "none", origin |-> "install", holds |-> {}])}

InitXml ==
    InitOf({[c EXCEPT !.license = l] :
                c \in Commands(Distributions({D_d}, {V_2}, {U_ab8}, {TRUE}, BOOLEAN, BOOLEAN),
                               Interpreters({"darwin"}, {<<3, 12, 0>>}, {F_i386_ppc}),
                               Options({P_bdist}, {None, R_welcome, R_WELCOME}, {None, R_readme},
                                       {TRUE}, {Conf_1, Conf_globals, Conf_default}, BOOLEAN)),
                l \in {None, R_license}},
           Installs(XmlLibs, {P_lib}, {P_scripts}),
           {NoMod})

SpecXml == InitXml /\ [][Next]_vars

(***************************************************************************)
(* The order of the sections of the installer description, checked under   *)
(* SpecXml.                                                                *)
(***************************************************************************)

\* the place of an element among the sections of the document
Section(tag) ==
    CASE tag \in {"?xml", "installer-gui-script"}                  -> 0
      [] tag = "title"                                             -> 1
      [] tag = "domain"                                            -> 2
      [] tag = "options"                                           -> 3
      [] tag = "background"                                        -> 4
      [] tag = "volume-check"                                      -> 5
      [] tag = "welcome"                                           -> 6
      [] tag = "readme"                                            -> 7
      [] tag = "license"                                           -> 8
      [] tag \in {"choices-outline", "line", "/choices-outline"}   -> 9
      [] tag \in {"choice", "choice/pkg-ref", "/choice"}           -> 10
      [] tag = "pkg-ref"                                           -> 11
      [] tag = "script"                                            -> 12
      [] tag = "/installer-gui-script"                             -> 13

Elements(tag) == {k \in 1..Len(fs.xml) : fs.xml[k].tag = tag}

\* C18: the sections of the document come in the order title, domain,
\* options (when present), background, volume-check, welcome, readme and
\* license (those given, in that order), choices-outline, the choice
\* elements, the top-level pkg-ref elements, the script; the script defines
\* the function volume-check names, with the resolved library install path
\* and the major.minor of the interpreter.
C18_SectionOrder ==
    DescriptionWritten =>
        /\ \A j, k \in 1..Len(fs.xml) : j < k => Section(fs.xml[j].tag) <= Section(fs.xml[k].tag)
        /\ \A t \in {"title", "domain", "background", "volume-check", "choices-outline",
                     "/choices-outline", "script"} : Cardinality(Elements(t)) = 1
        /\ Cardinality(Elements("options")) <= 1
        /\ \A t \in {"welcome", "readme", "license"} :
               Cardinality(Elements(t)) = IF self[t] # None THEN 1 ELSE 0
        /\ \A v \in Elements("volume-check") : fs.xml[v].script = "checkForPythonInstall()"
        /\ \A k \in Elements("script") :
               /\ fs.xml[k].function = "checkForPythonInstall"
               /\ fs.xml[k].site_packages_dir = loc.target_lib_dir
               /\ fs.xml[k].python_ver = <<"3", ".", "1", "2">>

\* a document with every section: options, the three files, two components
C18_Witness ==
    /\ DescriptionWritten
    /\ Elements("options") # {}
    /\ Elements("welcome") # {} /\ Elements("readme") # {} /\ Elements("license") # {}
    /\ Cardinality(Elements("choice")) = 2
    /\ Cardinality(Elements("pkg-ref")) = 2
    /\ Elements("script") # {}

(***************************************************************************)
(* The elements written for the descriptors, checked under SpecXml.        *)
(***************************************************************************)

\* the elements of the document with a tag, in the order of the document
ElementSeq(tag) == SelectSeq(fs.xml, LAMBDA e : e.tag = tag)

\* C19: for N descriptors the document has N outline lines, for choice1 to
\* choiceN in that order, N choice elements and N top-level pkg-ref
\* elements; the choice element i has the title and the flattened
\* description of descriptor i and nests a pkg-ref of its identifier; the
\* top-level pkg-ref i has the identifier, the version and the archive name
\* of descriptor i.
C19_OneOfEachPerDescriptor ==
    DescriptionWritten =>
        LET N == Len(loc.pkgs)
        IN  /\ Len(ElementSeq("line")) = N
            /\ Len(ElementSeq("choice")) = N
            /\ Len(ElementSeq("choice/pkg-ref")) = N
            /\ Len(ElementSeq("pkg-ref")) = N
            /\ \A i \in 1..N :
                   /\ ElementSeq("line")[i].choice = i
                   /\ ElementSeq("choice")[i].id = i
                   /\ ElementSeq("choice")[i].title = repr(loc.pkgs[i].title)
                   /\ ElementSeq("choice")[i].description = repr(Spaced(loc.pkgs[i].description))
                   /\ ElementSeq("pkg-ref")[i].id = loc.pkgs[i].identifier
                   /\ ElementSeq("pkg-ref")[i].version = loc.pkgs[i].version
                   /\ ElementSeq("pkg-ref")[i].name = loc.pkgs[i].name
            /\ \A k \in Elements("choice") :
                   /\ fs.xml[k + 1].tag = "choice/pkg-ref"
                   /\ fs.xml[k + 1].id = loc.pkgs[fs.xml[k].id].identifier
                   /\ fs.xml[k + 2].tag = "/choice"

\* a document for three descriptors with three identifiers
C19_Witness ==
    /\ DescriptionWritten
    /\ Len(loc.pkgs) = 3
    /\ Len(ElementSeq("choice")) = 3
    /\ Cardinality({loc.pkgs[i].identifier : i \in 1..3}) = 3
    /\ ElementSeq("pkg-ref")[3].name = S_scripts_pkg

(***************************************************************************)
(* The type identifiers of the welcome, readme and license files, checked  *)
(* under SpecXml.  mdls answers in ASCII.                                  *)
(***************************************************************************)

\* the invocations of mdls that succeeded with an answer that has no dot
MalformedAnswers ==
    {k \in 1..Len(calls) :
        /\ calls[k].cmd.tool = "mdls"
        /\ calls[k].returncode = 0
        /\ \A c \in 1..Len(calls[k].out) : calls[k].out[c] # "."}

\* the name ends in .html, in any letter case
EndsInHtml(file) ==
    /\ Len(file) >= 5
    /\ lower(SubSeq(file, Len(file) - 4, Len(file))) = <<".", "h", "t", "m", "l">>

\* C20: when mdls answers with a value that has no dot, run ends there with
\* DistutilsExecError, the document is not written and productbuild is not
\* invoked; for a file whose extension is .html in any letter case the
\* identifier is public.html and mdls is not invoked.
C20_MalformedAnswerFails ==
    /\ \A k \in MalformedAnswers :
           /\ k = Len(calls)
           /\ pc = "aborted"
           /\ raised = "DistutilsExecError"
           /\ ~DescriptionWritten
           /\ Invocations("productbuild") = <<>>
           /\ fs.product = None
    /\ \A t \in {"welcome", "readme", "license"} :
           self[t] # None /\ EndsInHtml(self[t]) =>
               /\ \A k \in 1..Len(calls) :
                      calls[k].cmd.tool = "mdls" => calls[k].cmd.file # self[t]
               /\ \A k \in Elements(t) :
                      fs.xml[k].uti = <<"p", "u", "b", "l", "i", "c", ".", "h", "t", "m", "l">>

\* the welcome file W.HTML was passed without a query and the query for the
\* readme file was answered with a value that has no dot
C20_Witness ==
    /\ self.welcome = R_WELCOME
    /\ self.readme = R_readme
    /\ MalformedAnswers # {}
    /\ Len(Invocations("mdls")) = 1
    /\ Invocations("mdls")[1].cmd.file = R_readme
    /\ Invocations("mdls")[1].out = <<"(", "n", ")">>
    /\ pc = "aborted"
    /\ ~DescriptionWritten

(***************************************************************************)
(* mkpkg.sh, checked under Spec.                                           *)
(***************************************************************************)

\* the lines of mkpkg.sh that are commands: mkdir lines and tool lines
CommandLines == SelectSeq(sh_file.lines, LAMBDA l : l.kind # "comment")

EndedWithTree == pc \in {"done", "aborted"} /\ fs.installed

\* C22: without keep_temp the tree under bdist_dir is removed at the end of
\* run, when run succeeded and when it failed; with keep_temp it is never
\* removed.
C22_TempTreeRemoved ==
    /\ EndedWithTree /\ ~self.keep_temp => fs.removed
    /\ self.keep_temp => ~fs.removed

(***************************************************************************)
(* The install locations of the descriptors, checked under Spec.           *)
(***************************************************************************)

\* the path begins with the separator
Absolute(p) == Len(p) > 0 /\ p[1] = "/"

\* C23: the install_location of every descriptor that create_package_objs
\* made, and of every pkgbuild invocation, begins with the path separator.
C23_AbsoluteInstallLocation ==
    /\ \A i \in 1..Len(loc.pkgs) : Absolute(loc.pkgs[i].install_location)
    /\ \A k \in 1..Len(Invocations("pkgbuild")) :
           Absolute(Invocations("pkgbuild")[k].cmd.install_location)

\* pkgbuild has been invoked for a package below the library directory and
\* for the scripts
C23_Witness ==
    /\ Len(Invocations("pkgbuild")) = 2
    /\ Invocations("pkgbuild")[1].cmd.install_location
           = <<"/", "L", "/", "s", "i", "t", "e", "-", "p", "a", "c", "k", "a", "g", "e", "s",
               "/", "x", "-", "m", "o", "d", "s">>
    /\ Invocations("pkgbuild")[2].cmd.install_location = <<"/", "L", "/", "b", "i", "n">>

(***************************************************************************)
(* The options after finalize_options, checked under SpecXml.              *)
(***************************************************************************)

\* the values SpecXml gives on the command line for an option
Given(key) ==
    CASE key = "welcome" -> {R_welcome, R_WELCOME}
      [] key = "readme"  -> {R_readme}
      [] key = "license" -> {R_license}
      [] OTHER           -> {}

\* the keys of the global section of the configuration that was read
GlobalKeys == IF S_globals \in DOMAIN self.config THEN DOMAIN self.config[S_globals] ELSE {}

\* the option is the one given on the command line or, with none given,
\* the one of the global section
FromCommandLineOrGlobals(key) ==
    key \in GlobalKeys => self[key] \in Given(key) \cup {self.config[S_globals][key]}

\* C24: after finalize_options each of title, welcome, readme, license and
\* arch that was not given on the command line and that the global section
\* of the configuration defines has the configured value; a configured arch
\* replaces the one derived from the compiler flags.
C24_ConfigOverrides ==
    pc # "finalize_options" =>
        \A key \in {"title", "welcome", "readme", "license", "arch"} :
            FromCommandLineOrGlobals(key)

(***************************************************************************)
(* The titles and descriptions of the descriptors, checked under SpecXml.  *)
(***************************************************************************)

\* the logical name of a library descriptor: pkg.<name>.pkg without the
\* prefix and the extension
LogicalName(pkg) == SubSeq(pkg.name, 5, Len(pkg.name) - 4)

\* the section of the configuration of a descriptor
SectionOf(pkg) ==
    IF pkg.name = S_modules_pkg THEN S_mods_section
    ELSE IF pkg.name = S_scripts_pkg THEN S_scripts_section
    ELSE LogicalName(pkg)

\* the generated title and description of a descriptor
DefaultOf(pkg, key) ==
    IF pkg.name = S_modules_pkg
    THEN IF key = "title" THEN <<"M", "o", "d", "u", "l", "e", "s">> ELSE S_mods_descr
    ELSE IF pkg.name = S_scripts_pkg
    THEN IF key = "title" THEN <<"S", "c", "r", "i", "p", "t", "s">> ELSE S_scripts_descr
    ELSE IF key = "title" THEN LogicalName(pkg) \o <<" ", "p", "a", "c", "k", "a", "g", "e">>
    ELSE IF self.single_lib_pkg THEN S_single_descr
    ELSE <<"P", "y", "t", "h", "o", "n", " ", "p", "a", "c", "k", "a", "g", "e", " ", "\"">>
         \o LogicalName(pkg) \o <<"\"", ".">>

\* the value of the key in the section itself, the default without it
PlainLookup(section, key, default) ==
    IF section \in DOMAIN self.config /\ key \in DOMAIN self.config[section]
    THEN self.config[section][key]
    ELSE default

\* C25: the title and the description of a descriptor are the values its
\* own section defines (the package name, :mods:, :scripts:), and the
\* generated defaults where it defines none; no other section, the global
\* and the DEFAULT section included, has a part in them.
C25_PlainSectionLookup ==
    \A i \in 1..Len(loc.pkgs) :
        /\ loc.pkgs[i].title
               = PlainLookup(SectionOf(loc.pkgs[i]), "title", DefaultOf(loc.pkgs[i], "title"))
        /\ loc.pkgs[i].description
               = PlainLookup(SectionOf(loc.pkgs[i]), "description",
                             DefaultOf(loc.pkgs[i], "description"))

(***************************************************************************)
(* The empty library directory, checked under Spec.                        *)
(***************************************************************************)

\* a run in default mode, for a distribution without scripts, whose install
\* leaves the staged library directory empty
EmptyLibraryRun ==
    /\ install.lib = EmptyDir
    /\ ~self.single_lib_pkg
    /\ ~self.distribution.has_scripts

\* C26: for an empty staged library directory get_installed_contents
\* returns three empty lists; a run in default mode for a distribution
\* without scripts then makes no descriptor, invokes pkgbuild not once, and
\* goes on to init_resources: no exception comes from the classification.
C26_EmptyLibraryIsNoError ==
    EmptyLibraryRun /\ contents.called =>
        /\ contents.pkgNames = <<>> /\ contents.files = <<>> /\ contents.dirNames = <<>>
        /\ loc.pkgs = <<>>
        /\ Invocations("pkgbuild") = <<>>
        /\ pc # "create_package_objs"
        /\ pc = "aborted" =>
               /\ sh_file.opened
               /\ ResourcesInitialized
               /\ calls # <<>>
               /\ calls[Len(calls)].cmd.tool \in {"mdls", "productbuild"}

\* the run for an empty library directory has ended with the product built
\* by the one tool invocation it made
C26_Witness ==
    /\ EmptyLibraryRun
    /\ contents.called
    /\ pc = "done"
    /\ Len(calls) = 1
    /\ calls[1].cmd.tool = "productbuild"
    /\ fs.product # None

(***************************************************************************)
(* SpecRoot: do_install on every library install directory of at most      *)
(* MaxComponents components, each of them site-packages, a longer name     *)
(* that holds site-packages, another name, or the empty name.              *)
(***************************************************************************)

MaxComponents == 3

N_spx  == S_site_packages \o <<"-", "x">>
N_xsp  == <<"x">> \o S_site_packages
N_lib  == <<"l", "i", "b">>

RootNames == {S_site_packages, N_spx, N_xsp, N_lib, <<>>}

RootPaths ==
    UNION {{(IF abs THEN <<"/">> ELSE <<>>) \o join("/", cs) :
                cs \in [1..k -> RootNames], abs \in BOOLEAN} : k \in 0..MaxComponents}

InitRoot ==
    /\ pc = "do_install"
    /\ raised = ""
    /\ self = finalize_options(
                  CommandObject(
                      [name |-> D_d, version |-> V_1, url |-> U_ab8, has_pure_modules |-> TRUE,
                       has_ext_modules |-> FALSE, has_scripts |-> FALSE],
                      [platform |-> "darwin", version_info |-> <<3, 12, 0>>, cflags |-> F_x86_64,
                       get_platform |-> <<"m", "-", "1", "0">>],
                      [bdist_dir |-> P_bdist, welcome |-> None, readme |-> None,
                       keep_temp |-> TRUE, config_str |-> EmptyConfig, single_lib_pkg |-> FALSE]))
    /\ \E dir \in RootPaths :
           install = [install_lib_dir |-> dir, install_scripts_dir |-> P_scripts,
                      lib |-> EmptyDir, listing |-> <<>>]
    /\ fs = [built |-> TRUE, installed |-> FALSE, removed |-> FALSE, lib |-> EmptyDir,
             listing |-> <<>>, mod |-> NoMod, dirs |-> {}, pkgs |-> {}, resources |-> {},
             xml |-> <<>>, product |-> None]
    /\ loc = [NoLocals EXCEPT !.stage_dir = path_join(P_bdist, S_stage)]
    /\ contents = NoContents
    /\ sh_file = [opened |-> FALSE, closed |-> FALSE, lines |-> <<>>]
    /\ calls = <<>>
    /\ pair = NoPair

SpecRoot == InitRoot /\ [][DoInstall]_vars

(***************************************************************************)
(* The site-packages root of do_install, checked under SpecRoot.           *)
(***************************************************************************)

\* the last component of the path is site-packages
EndsAtSitePackages(p) ==
    \/ p = S_site_packages
    \/ /\ Len(p) > Len(S_site_packages)
       /\ SubSeq(p, Len(p) - Len(S_site_packages), Len(p)) = <<"/">> \o S_site_packages

\* a component of the path is site-packages
HasSitePackagesComponent(p) ==
    \E k \in 1..Len(split(p, "/")) : split(p, "/")[k] = S_site_packages

\* C27: the loop of do_install ends for every path, with a directory whose
\* last component is site-packages and the install run, or with
\* DistutilsInternalError and no install run; a path that holds
\* site-packages only inside longer component names ends in the error.
C27_SitePackagesRootOrError ==
    pc # "do_install" =>
        /\ \/ /\ pc = "resolve"
              /\ raised = ""
              /\ EndsAtSitePackages(loc.stage_lib_dir)
              /\ startswith(install.install_lib_dir, loc.stage_lib_dir)
              /\ fs.installed
           \/ /\ pc = "aborted"
              /\ raised = "DistutilsInternalError"
              /\ loc.stage_lib_dir = None
              /\ ~fs.installed
        /\ ~HasSitePackagesComponent(install.install_lib_dir) => pc = "aborted"

\* do_install has raised for /site-packages-x/lib
C27_Witness ==
    /\ install.install_lib_dir = <<"/">> \o N_spx \o <<"/">> \o N_lib
    /\ pc = "aborted"
    /\ raised = "DistutilsInternalError"
    /\ ~fs.installed

(***************************************************************************)
(* The stage_mod directory after copy_mods_and_data, checked under         *)
(* SpecPkgs, where an earlier build may have left an entry in it.          *)
(***************************************************************************)

\* copy_mods_and_data was called and has returned
Copied ==
    /\ pc = "open_script"
    /\ contents.called
    /\ Len(contents.files) # 0 \/ Len(contents.dirNames) # 0

\* the loose files and the non-package directories of the classification
LooseNames ==
    {contents.files[k] : k \in 1..Len(contents.files)}
    \cup {contents.dirNames[k] : k \in 1..Len(contents.dirNames)}

\* C28: after copy_mods_and_data has returned, the stage_mod directory
\* holds the loose files and the non-package directories of the
\* classification, each as the staged library directory has it, and
\* nothing else, also when an earlier build left entries there; a
\* directory of the name of a copied one is replaced.
C28_ExactlyTheLooseEntries ==
    Copied =>
        /\ fs.mod.exists
        /\ DOMAIN fs.mod.entries = LooseNames
        /\ \A name \in LooseNames : fs.mod.entries[name] = fs.lib[name]

(***************************************************************************)
(* The welcome element, checked under SpecXml.                             *)
(***************************************************************************)

\* the welcome file that init_resources makes when none was given
GeneratedWelcome ==
    <<"/", "b", "/", "r", "e", "s", "o", "u", "r", "c", "e", "s", "/",
      "w", "e", "l", "c", "o", "m", "e", ".", "h", "t", "m", "l">>

\* C29: every document that run writes has a welcome element; with no
\* welcome file given, init_resources, which runs before the document is
\* made, writes welcome.html into the resources directory and records it,
\* and the element names it by its base name with the type public.html.
C29_WelcomeAlwaysPresent ==
    DescriptionWritten =>
        /\ ResourcesInitialized
        /\ self.welcome # None
        /\ Cardinality(Elements("welcome")) = 1
        /\ \A k \in Elements("welcome") : fs.xml[k].file = basename(self.welcome)
        /\ self.welcome = GeneratedWelcome =>
               /\ <<"w", "e", "l", "c", "o", "m", "e", ".", "h", "t", "m", "l">> \in fs.resources
               /\ \A k \in Elements("welcome") :
                      /\ fs.xml[k].file = <<"w", "e", "l", "c", "o", "m", "e", ".", "h", "t", "m", "l">>
                      /\ fs.xml[k].uti = <<"p", "u", "b", "l", "i", "c", ".", "h", "t", "m", "l">>

\* a document has been written in a run that was given no welcome file
C29_Witness ==
    /\ DescriptionWritten
    /\ self.welcome = GeneratedWelcome
    /\ self.config = EmptyConfig \/ S_globals \notin DOMAIN self.config
           \/ "welcome" \notin DOMAIN self.config[S_globals]
    /\ \E k \in Elements("welcome") : fs.xml[k].uti = S_public_html

(***************************************************************************)
(* The tool lines of mkpkg.sh at every point of run, checked under Spec.   *)
(***************************************************************************)

\* the pkgbuild and productbuild lines of mkpkg.sh
ToolLines == SelectSeq(sh_file.lines, LAMBDA l : l.kind = "cmd")

\* the invocations of pkgbuild and productbuild that returned zero
SucceededBuilds ==
    SelectSeq(calls, LAMBDA c : c.cmd.tool \in {"pkgbuild", "productbuild"} /\ c.returncode = 0)

\* C30: at every point of run the pkgbuild and productbuild lines of
\* mkpkg.sh are the commands of the invocations that have returned zero,
\* in the order of the invocations; the command of an invocation that
\* failed is not in the script, and run does not close the script then.
C30_ScriptHoldsSucceededOnly ==
    /\ Len(ToolLines) = Len(SucceededBuilds)
    /\ \A i \in 1..Len(ToolLines) : ToolLines[i].arg = SucceededBuilds[i].cmd
    /\ \A k \in FailedBuilds :
           /\ \A i \in 1..Len(ToolLines) : ToolLines[i].arg # calls[k].cmd
           /\ ~sh_file.closed
    /\ pc = "aborted" => ~sh_file.closed

\* pkgbuild has succeeded for the first component and failed for the
\* second: the script has the first command and is open
C30_Witness ==
    /\ pc = "aborted"
    /\ Len(loc.pkgs) = 2
    /\ Len(Invocations("pkgbuild")) = 2
    /\ Invocations("pkgbuild")[2].returncode = 1
    /\ Len(ToolLines) = 1
    /\ ToolLines[1].arg = Invocations("pkgbuild")[1].cmd
    /\ sh_file.opened
    /\ ~sh_file.closed

=============================================================================
